---- MODULE Spec2Model ----
(***************************************************************************)
(* A model of the snapshot engine of adeverteuil/backup:                   *)
(*   backup/locking.py   Lockable   (directory mutex)                      *)
(*   backup/snapshot.py  Snapshot   (status state machine, renaming)       *)
(*   backup/cycle.py     Cycle      (purge, feed, create_new_snapshot)     *)
(*                                                                         *)
(* The filesystem below one destination directory is modelled by four      *)
(* variables keyed by a snapshot name <<interval, stamp>>: the snapshot    *)
(* directory, the status file, the lock directory and the marker files     *)
(* inside the lock directory.  Every method of the program is an operator  *)
(* from a world (filesystem + objects + pending exception) to a world;     *)
(* an action applies one whole method to the current world.                *)
(***************************************************************************)
EXTENDS Integers, Sequences, FiniteSets, TLC

VARIABLES
    dir,        \* [Names -> {"absent","empty","full"}]  snapshot directories
    sf,         \* [Names -> 0..7]  status file content, 0 = no status file
    lk,         \* set of Names whose lock directory exists
    mk,         \* set of <<name, owner>>: marker files inside lock directories
    snap,       \* [SnapIds -> [interval, timestamp, status]]  Snapshot objects
    cyc,        \* [Intervals -> Seq(SnapIds)]  Cycle.snapshots, newest first
    overflow,   \* [Intervals -> [to, keep]]  Cycle.overflow_cycle ("none" = None)
    dry,        \* if_not_dry_run.dry_run
    exc,        \* exception raised by the last operation, "none" if it returned
    last,       \* the last operation and what it saw before it ran
    pc,         \* [Owners -> position of each concurrent owner in acquire/release]
    res,        \* [Owners -> result of each owner's last acquire/release]
    eng         \* state of the transfer and of a running create_new_snapshot

vars == <<dir, sf, lk, mk, snap, cyc, overflow, dry, exc, last, pc, res, eng>>

----------------------------------------------------------------------------
(* Bounds of the model *)

MaxTimes == 4            \* how many of the instants of AllTimes are used
MaxTreeTimes == 3        \* how many of them a tree of mixed spacing draws on
MaxSnapTimes == 2        \* instants a lone snapshot is renamed to (SpecSnap)
MaxLockOwners == 3       \* owners racing for one lock path (SpecLock)
MaxSnapshots == 3        \* Snapshot objects / directories in a tree
MaxKeep == 2             \* largest retention count handed to purge
MaxPolls == 1            \* wait() polls of one transfer that time out

(* Program constants *)

None == -1               \* a timestamp of None (work in progress)
WipStamp == 9999         \* the "wip" suffix: sorts after every timestamp
HOUR == 1                \* timestamps are counted in hours
DAY == 24
WEEK == 168

Intervals == {"hourly", "daily", "weekly"}

TIMEDELTA(interval) ==
    CASE interval = "hourly" -> HOUR
      [] interval = "daily"  -> DAY
      [] interval = "weekly" -> WEEK
      [] OTHER -> HOUR

(* The instants snapshots may carry, chosen around the spacings. *)
AllTimes == <<0, 1, 24, 2, 25, 168, 23, 48, 169, 192>>
Times == {AllTimes[i] : i \in 1..MaxTimes}

Stamps == Times \cup {WipStamp}
Names == Intervals \X Stamps
SnapIds == 1..MaxSnapshots
Foreign == 0             \* an owner in another process
Owners == {Foreign} \cup SnapIds

Status == {"void", "blank", "syncing", "flagged", "complete", "deleting", "deleted"}
Dirty == {"syncing", "flagged", "deleting"}

(* Status.<name>.value of the enum, the content of a status file *)
Value(st) ==
    CASE st = "void" -> 1 [] st = "blank" -> 2 [] st = "syncing" -> 3
      [] st = "flagged" -> 4 [] st = "complete" -> 5 [] st = "deleting" -> 6
      [] st = "deleted" -> 7

(* Status(int(f.read())) *)
FromValue(v) == CHOOSE st \in Status : Value(st) = v

----------------------------------------------------------------------------
(* Worlds *)

World == [dir |-> dir, sf |-> sf, lk |-> lk, mk |-> mk, snap |-> snap,
          cyc |-> cyc, overflow |-> overflow, dry |-> dry, exc |-> "none"]

Ok(w) == w.exc = "none"
Raise(w, e) == [w EXCEPT !.exc = e]

Unborn == [interval |-> "hourly", timestamp |-> None, status |-> "unborn"]

(* The state a statement leaves, bound once for the statements after it *)
The(S) == CHOOSE w \in S : TRUE

----------------------------------------------------------------------------
(* Filesystem primitives.  Those behind @if_not_dry_run do nothing in a    *)
(* dry run.                                                                *)

FsCreateFile(w, n, v) == IF w.dry THEN w ELSE [w EXCEPT !.sf[n] = v]

FsUnlink(w, n) ==
    IF w.dry THEN w
    ELSE IF w.sf[n] = 0 THEN Raise(w, "FileNotFoundError")
    ELSE [w EXCEPT !.sf[n] = 0]

FsMkdir(w, n) ==
    IF w.dry THEN w
    ELSE IF w.dir[n] # "absent" THEN Raise(w, "FileExistsError")
    ELSE [w EXCEPT !.dir[n] = "empty"]

FsRmtree(w, n) ==
    IF w.dry THEN w
    ELSE IF w.dir[n] = "absent" THEN Raise(w, "FileNotFoundError")
    ELSE [w EXCEPT !.dir[n] = "absent"]

(* os.rename of a directory: onto itself is a no-op, an empty directory    *)
(* at the target is replaced, a non-empty one is an error.                 *)
FsRenameDir(w, old, new) ==
    IF w.dry \/ old = new THEN w
    ELSE IF w.dir[new] = "full" THEN Raise(w, "OSError")
    ELSE [w EXCEPT !.dir = [@ EXCEPT ![new] = w.dir[old], ![old] = "absent"]]

FsRenameLock(w, old, new) ==
    IF w.dry \/ old = new THEN w
    ELSE IF \E o \in Owners : <<new, o>> \in w.mk THEN Raise(w, "OSError")
    ELSE [w EXCEPT !.lk = (@ \ {old}) \cup {new},
                   !.mk = {m \in @ : m[1] # old}
                          \cup {<<new, m[2]>> : m \in {x \in @ : x[1] = old}}]

FsRenameFile(w, old, new) ==
    IF w.dry \/ old = new THEN w
    ELSE [w EXCEPT !.sf = [@ EXCEPT ![new] = w.sf[old], ![old] = 0]]

----------------------------------------------------------------------------
(* Lockable (locking.py).  A lock is named by the lock directory n and an  *)
(* owner o stands for Lockable._unique_name (pid, thread, object).         *)

(* Mutant of MkdirRaisesEEXIST: a mkdir that accepts an existing directory *)
MkdirExistOk(w, n) == FALSE

MkdirRaisesEEXIST(w, n) == n \in w.lk

LockMkdir(w, n) ==
    IF MkdirRaisesEEXIST(w, n) THEN Raise(w, "EEXIST")
    ELSE [w EXCEPT !.lk = @ \cup {n}]

MarkerCreate(w, n, o) ==
    IF n \notin w.lk THEN Raise(w, "FileNotFoundError")
    ELSE [w EXCEPT !.mk = @ \cup {<<n, o>>}]

is_locked(w, n) == n \in w.lk

i_am_locking(w, n, o) == is_locked(w, n) /\ <<n, o>> \in w.mk

(* Mutant of AcquireExisting: an existing lock directory counts as held by *)
(* the caller, whoever made it.                                            *)
AcquireExistingAny(w, n, o) == w

(* acquire() after its mkdir failed with EEXIST *)
AcquireExisting(w, n, o) ==
    IF <<n, o>> \in w.mk THEN w ELSE Raise(w, "AlreadyLocked")

acquire(w, n, o) ==
    LET w1 == LockMkdir(w, n)
    IN  IF ~Ok(w1) THEN AcquireExisting(w, n, o) ELSE MarkerCreate(w1, n, o)

MarkerRemove(w, n, o) ==
    IF <<n, o>> \notin w.mk THEN Raise(w, "FileNotFoundError")
    ELSE [w EXCEPT !.mk = @ \ {<<n, o>>}]

LockRmdir(w, n) ==
    IF n \notin w.lk THEN Raise(w, "FileNotFoundError")
    ELSE IF \E o \in Owners : <<n, o>> \in w.mk THEN Raise(w, "OSError")
    ELSE [w EXCEPT !.lk = @ \ {n}]

(* release() that removes the lock whoever holds it *)
ReleaseAnyOwner(w, n, o) ==
    IF ~is_locked(w, n) THEN Raise(w, "AlreadyUnlocked")
    ELSE [w EXCEPT !.mk = {m \in @ : m[1] # n}, !.lk = @ \ {n}]

release(w, n, o) ==
    IF ~is_locked(w, n) THEN Raise(w, "AlreadyUnlocked")
    ELSE IF <<n, o>> \notin w.mk THEN Raise(w, "NotMyLock")
    ELSE LET w1 == MarkerRemove(w, n, o)
         IN  IF ~Ok(w1) THEN w1 ELSE LockRmdir(w1, n)

break_lock(w, n) ==
    IF n \in w.lk
    THEN [w EXCEPT !.mk = {m \in @ : m[1] # n}, !.lk = @ \ {n}]
    ELSE w

(* Lockable.__exit__(exc_type, ...) after a body that left world w:        *)
(* release() whatever exc_type is; an exception of release() replaces the  *)
(* body's, otherwise the body's exception propagates.                      *)
ExitReleases(bodyExc) == TRUE

exit(w, n, o) ==
    IF ExitReleases(w.exc)
    THEN LET w1 == release(Raise(w, "none"), n, o)
         IN  IF Ok(w1) THEN Raise(w1, w.exc) ELSE w1
    ELSE w

----------------------------------------------------------------------------
(* Snapshot (snapshot.py) *)

stimestamp(ts) == IF ts = None THEN WipStamp ELSE ts

NameOf(w, s) == <<w.snap[s].interval, stimestamp(w.snap[s].timestamp)>>
path(w, s) == NameOf(w, s)
lockfile(w, s) == NameOf(w, s)
statusfile(w, s) == NameOf(w, s)

(* _status_file_check: "none" or the exception reading .status raises *)
StatusFileCheck(w, s) ==
    IF w.dry \/ w.snap[s].status \notin Dirty THEN "none"
    ELSE IF w.sf[statusfile(w, s)] = 0 THEN "FileNotFoundError"
    ELSE IF w.sf[statusfile(w, s)] \notin 1..7 THEN "ValueError"
    ELSE IF FromValue(w.sf[statusfile(w, s)]) # w.snap[s].status
         THEN "AssertionError"
    ELSE "none"

(* Mutants of SetterOutcome: a setter without the guard on deleted, and a  *)
(* setter that refuses a dirty status when the lock is not held.           *)
SetterOutcomeNoDeletedGuard(w, s, cur, new) ==
    IF cur = "flagged" /\ new = "syncing" THEN "flagged" ELSE new

SetterOutcomeChecksLock(w, s, cur, new) ==
    IF cur = "deleted" /\ new # cur THEN "raise"
    ELSE IF new \in Dirty /\ <<NameOf(w, s), s>> \notin w.mk THEN "raise"
    ELSE IF cur = "flagged" /\ new = "syncing" THEN "flagged"
    ELSE new

(* A setter that lets a flagged snapshot go back to syncing *)
SetterOutcomeNotSticky(w, s, cur, new) ==
    IF cur = "deleted" /\ new # cur THEN "raise" ELSE new

(* The status the setter stores for an assignment of new over cur, or      *)
(* "raise" when it raises RuntimeError.                                    *)
SetterOutcome(w, s, cur, new) ==
    IF cur = "deleted" /\ new # cur THEN "raise"
    ELSE IF cur = "flagged" /\ new = "syncing" THEN "flagged"
    ELSE new

(* What the setter does to the status file for the stored status st *)
SetterFile(w, s, st) ==
    IF st \in Dirty THEN FsCreateFile(w, statusfile(w, s), Value(st))
    ELSE LET w1 == FsUnlink(w, statusfile(w, s))
         IN  IF Ok(w1) THEN w1 ELSE w    \* except FileNotFoundError: pass

SetStatus(w, s, new) ==
    LET chk == StatusFileCheck(w, s)
        st == SetterOutcome(w, s, w.snap[s].status, new)
    IN  IF chk # "none" THEN Raise(w, chk)
        ELSE IF st = "raise" THEN Raise(w, "RuntimeError")
        ELSE [SetterFile(w, s, st) EXCEPT !.snap[s].status = st]

(* infer_status() that reads the status file before it looks for the      *)
(* directory                                                               *)
InferredFileFirst(w, s) ==
    IF w.sf[statusfile(w, s)] # 0 THEN FromValue(w.sf[statusfile(w, s)])
    ELSE IF w.dir[path(w, s)] = "absent" THEN "void"
    ELSE IF w.dir[path(w, s)] = "full" THEN "complete"
    ELSE "blank"

InferredStatus(w, s) ==
    IF w.dir[path(w, s)] = "absent" THEN "void"
    ELSE IF w.sf[statusfile(w, s)] # 0 THEN FromValue(w.sf[statusfile(w, s)])
    ELSE IF w.dir[path(w, s)] = "full" THEN "complete"
    ELSE "blank"

(* infer_status(): Status(int(f.read())) raises ValueError for a content   *)
(* that is not the value of a status; self.status = status otherwise.      *)
infer_status(w, s) ==
    IF w.dir[path(w, s)] # "absent" /\ w.sf[statusfile(w, s)] \notin 0..7
    THEN Raise(w, "ValueError")
    ELSE SetStatus(w, s, InferredStatus(w, s))

(* Snapshot(dir, interval, timestamp): the object s is constructed *)
NewSnapshot(w, s, iv, ts) ==
    infer_status([w EXCEPT !.snap[s] =
                     [interval |-> iv, timestamp |-> ts, status |-> "none"]], s)

mkdir(w, s) ==
    LET chk == StatusFileCheck(w, s)
    IN  IF chk # "none" THEN Raise(w, chk)
        ELSE IF w.snap[s].status # "void" THEN Raise(w, "RuntimeError")
        ELSE The({IF ~Ok(w1) THEN w1 ELSE SetStatus(w1, s, "blank") :
                  w1 \in {FsMkdir(w, path(w, s))}})

delete(w, s) ==
    LET chk == StatusFileCheck(w, s)
    IN  IF chk # "none" THEN Raise(w, chk)
        ELSE IF w.snap[s].status = "void" THEN Raise(w, "RuntimeError")
        ELSE The({IF ~Ok(w1) THEN w1
                  ELSE The({IF Ok(w2) THEN SetStatus(w2, s, "deleted") ELSE w2 :
                            w2 \in {FsRmtree(w1, path(w1, s))}}) :
                  w1 \in {SetStatus(w, s, "deleting")}})

(* Mutant of RenameAll: the lock directory is left under the old name *)
RenameAllButLock(w, old, new) ==
    The({IF Ok(w1) /\ w1.sf[old] # 0
         THEN FsRenameFile(w1, old, new) ELSE w1 :
         w1 \in {IF w.dir[old] # "absent"
                 THEN FsRenameDir(w, old, new) ELSE w}})

(* Mutant of RenameAll: the status file is left under the old name *)
RenameAllButStatus(w, old, new) ==
    The({IF Ok(w1) /\ w1.dir[old] # "absent"
         THEN FsRenameDir(w1, old, new) ELSE w1 :
         w1 \in {IF old \in w.lk THEN FsRenameLock(w, old, new) ELSE w}})

(* The renames of the timestamp and interval setters, from the name old to *)
(* the name new, in the order lock, directory, status file.                *)
RenameAll(w, old, new) ==
    The({The({IF Ok(w2) /\ w2.sf[old] # 0
              THEN FsRenameFile(w2, old, new) ELSE w2 :
              w2 \in {IF Ok(w1) /\ w1.dir[old] # "absent"
                      THEN FsRenameDir(w1, old, new) ELSE w1}}) :
         w1 \in {IF old \in w.lk THEN FsRenameLock(w, old, new) ELSE w}})

SetTimestamp(w, s, value) ==
    LET w0 == [w EXCEPT !.snap[s].timestamp = value]
    IN  RenameAll(w0, NameOf(w, s), NameOf(w0, s))

SetInterval(w, s, value) ==
    LET w0 == [w EXCEPT !.snap[s].interval = value]
    IN  RenameAll(w0, NameOf(w, s), NameOf(w0, s))

(* The snapshot object as a Lockable: its owner is the object itself *)
SnapAcquire(w, s) == acquire(w, lockfile(w, s), s)
SnapRelease(w, s) == release(w, lockfile(w, s), s)
SnapExit(w, s) == exit(w, lockfile(w, s), s)
SnapHolds(w, s) == i_am_locking(w, lockfile(w, s), s)

----------------------------------------------------------------------------
(* Cycle (cycle.py) *)

(* Snapshot.from_path: the timestamp a directory name stands for *)
FromStamp(stamp) == IF stamp = WipStamp THEN None ELSE stamp

FreshId(w) ==
    CHOOSE s \in SnapIds :
        /\ w.snap[s].status = "unborn"
        /\ \A x \in SnapIds : w.snap[x].status = "unborn" => s <= x

(* _build_snapshots_list: sorted(glob("dir/interval.*")), each directory   *)
(* inserted at index 0; stamps is the set of names not yet inserted.       *)
RECURSIVE BuildList(_, _, _)
BuildList(w, iv, stamps) ==
    IF stamps = {} \/ ~Ok(w) THEN w
    ELSE LET st == CHOOSE x \in stamps : \A y \in stamps : x <= y
             s == FreshId(w)
         IN  The({BuildList(w2, iv, stamps \ {st}) :
                  w2 \in {[w1 EXCEPT !.cyc[iv] = <<s>> \o @] :
                          w1 \in {NewSnapshot(w, s, iv, FromStamp(st))}}})

(* Cycle(dir, interval) *)
NewCycle(w, iv) ==
    BuildList([w EXCEPT !.cyc[iv] = <<>>], iv,
              {st \in Stamps : w.dir[<<iv, st>>] # "absent"})

(* purge: the loop that counts complete snapshots.  Returns cutoff_index   *)
(* and the exception a status read raised, if any.                         *)
RECURSIVE ScanCutoff(_, _, _, _, _)
ScanCutoff(w, list, i, count, maxnumber) ==
    IF i > Len(list) THEN [idx |-> Len(list), exc |-> "none"]
    ELSE LET chk == StatusFileCheck(w, list[i])
             c == IF w.snap[list[i]].status = "complete" THEN count + 1 ELSE count
         IN  IF chk # "none" THEN [idx |-> i - 1, exc |-> chk]
             ELSE IF c >= maxnumber THEN [idx |-> i, exc |-> "none"]
             ELSE ScanCutoff(w, list, i + 1, c, maxnumber)

(* A cutoff that counts every snapshot, complete or not *)
CutoffCountsAll(w, list, maxnumber) ==
    [idx |-> IF Len(list) = 0 THEN 0
             ELSE IF maxnumber <= 1 THEN 1
             ELSE IF maxnumber <= Len(list) THEN maxnumber ELSE Len(list),
     exc |-> "none"]

CutoffIndex(w, list, maxnumber) == ScanCutoff(w, list, 1, 0, maxnumber)

(* with snapshot: snapshot.status = Status.deleting; snapshot.delete();    *)
(*                snapshot.status = Status.deleted                         *)
DeleteBody(w, s) ==
    The({IF ~Ok(w2) THEN w2
         ELSE The({IF Ok(w3) THEN SetStatus(w3, s, "deleted") ELSE w3 :
                   w3 \in {delete(w2, s)}}) :
         w2 \in {SetStatus(w, s, "deleting")}})

DeleteOne(w, s) ==
    The({IF ~Ok(w1) THEN w1
         ELSE The({SnapExit(w4, s) : w4 \in {DeleteBody(w1, s)}}) :
         w1 \in {SnapAcquire(w, s)}})

RECURSIVE DeleteAll(_, _)
(* A deletion loop that stops after the first surplus snapshot *)
DeleteFirstOnly(w, list) ==
    IF list = <<>> \/ ~Ok(w) THEN w ELSE DeleteOne(w, Head(list))

DeleteAll(w, list) ==
    IF list = <<>> \/ ~Ok(w) THEN w
    ELSE The({DeleteAll(w1, Tail(list)) : w1 \in {DeleteOne(w, Head(list))}})

(* Mutant of SpacedEnough: any newer candidate is accepted *)
SpacedAnyNewer(w, iv, s) ==
    w.snap[s].timestamp - w.snap[w.cyc[iv][1]].timestamp >= 0

(* snapshot.timestamp - self.snapshots[0].timestamp >= self.timedelta *)
SpacedEnough(w, iv, s) ==
    w.snap[s].timestamp - w.snap[w.cyc[iv][1]].timestamp >= TIMEDELTA(iv)

(* feed: the condition of the if, "yes", "no" or the exception it raises:  *)
(*   status is complete and len(self.snapshots) == 0 or (... >= timedelta) *)
FeedCond(w, iv, s) ==
    LET chk == StatusFileCheck(w, s)
    IN  IF chk # "none" THEN chk
        ELSE IF w.snap[s].status = "complete" /\ Len(w.cyc[iv]) = 0 THEN "yes"
        ELSE IF Len(w.cyc[iv]) = 0 THEN "IndexError"
        ELSE IF w.snap[s].timestamp = None
                \/ w.snap[w.cyc[iv][1]].timestamp = None THEN "TypeError"
        ELSE IF SpacedEnough(w, iv, s) THEN "yes" ELSE "no"

(* Mutant of ScanOrder: the candidates are visited from the newest *)
ScanForward(cands) == [i \in 1..Len(cands) |-> i]

(* reversed(snapshots): the indexes of the candidates, the oldest first *)
ScanOrder(cands) == [i \in 1..Len(cands) |-> Len(cands) + 1 - i]

(* for snapshot in reversed(snapshots): the first index, in the order      *)
(* visited, whose condition is true (0 if none)                            *)
RECURSIVE PickCandidate(_, _, _, _)
PickCandidate(w, iv, cands, order) ==
    IF order = <<>> THEN [idx |-> 0, exc |-> "none"]
    ELSE LET c == FeedCond(w, iv, cands[Head(order)])
         IN  IF c = "yes" THEN [idx |-> Head(order), exc |-> "none"]
             ELSE IF c = "no" THEN PickCandidate(w, iv, cands, Tail(order))
             ELSE [idx |-> 0, exc |-> c]

RemoveAt(list, i) == SubSeq(list, 1, i - 1) \o SubSeq(list, i + 1, Len(list))

(* Mutant of Promote: the snapshot is appended to the list *)
PromoteAppends(w, iv, s) ==
    The({IF ~Ok(w1) THEN w1
         ELSE The({SnapExit(IF Ok(w2) THEN [w2 EXCEPT !.cyc[iv] = @ \o <<s>>]
                            ELSE w2, s) :
                   w2 \in {SetInterval(w1, s, iv)}}) :
         w1 \in {SnapAcquire(w, s)}})

(* with snapshot: snapshot.interval = self.interval;                      *)
(*                self.snapshots.insert(0, snapshot)                       *)
Promote(w, iv, s) ==
    The({IF ~Ok(w1) THEN w1
         ELSE The({SnapExit(IF Ok(w2) THEN [w2 EXCEPT !.cyc[iv] = <<s>> \o @]
                            ELSE w2, s) :
                   w2 \in {SetInterval(w1, s, iv)}}) :
         w1 \in {SnapAcquire(w, s)}})

(* Mutant of FeedLoop: the scan is not repeated after an insertion *)
FeedOnePass(w, iv, cands) ==
    The({IF pick.exc # "none" THEN [w |-> Raise(w, pick.exc), cands |-> cands]
         ELSE IF pick.idx = 0 THEN [w |-> w, cands |-> cands]
         ELSE The({IF Ok(w1) THEN [w |-> w1, cands |-> RemoveAt(cands, pick.idx)]
                   ELSE [w |-> w1, cands |-> cands] :
                   w1 \in {Promote(w, iv, cands[pick.idx])}}) :
         pick \in {PickCandidate(w, iv, cands, ScanOrder(cands))}})

(* feed: the while loop; returns the world and the candidates left *)
RECURSIVE FeedLoop(_, _, _)
FeedLoop(w, iv, cands) ==
    The({IF pick.exc # "none" THEN [w |-> Raise(w, pick.exc), cands |-> cands]
         ELSE IF pick.idx = 0 THEN [w |-> w, cands |-> cands]
         ELSE The({IF Ok(w1) THEN FeedLoop(w1, iv, RemoveAt(cands, pick.idx))
                   ELSE [w |-> w1, cands |-> cands] :
                   w1 \in {Promote(w, iv, cands[pick.idx])}}) :
         pick \in {PickCandidate(w, iv, cands, ScanOrder(cands))}})

(* feed() that leaves the candidates it did not insert as they are *)
FeedKeepsRejected(w, iv, snapshots) ==
    The({r.w : r \in {FeedLoop(w, iv, snapshots)}})

feed(w, iv, snapshots) ==
    The({IF Ok(r.w) THEN DeleteAll(r.w, r.cands) ELSE r.w :
         r \in {FeedLoop(w, iv, snapshots)}})

RECURSIVE purge(_, _, _)
purge(w, iv, maxnumber) ==
    LET list == w.cyc[iv]
        over == w.overflow[iv]
    IN  The({IF cut.exc # "none" THEN Raise(w, cut.exc)
             ELSE The({IF Ok(w1)
                       THEN [w1 EXCEPT !.cyc[iv] = SubSeq(list, 1, cut.idx)]
                       ELSE w1 :
                       w1 \in {IF over.to # "none"
                               THEN The({IF Ok(wf)
                                         THEN purge(wf, over.to, over.keep)
                                         ELSE wf :
                                         wf \in {feed(w, over.to,
                                             SubSeq(list, cut.idx + 1, Len(list)))}})
                               ELSE DeleteAll(w,
                                        SubSeq(list, cut.idx + 1, Len(list)))}}) :
             cut \in {CutoffIndex(w, list, maxnumber)}})

----------------------------------------------------------------------------
(* Committing a world to the variables *)

Commit(w0) ==
    \E w \in {w0} :
        /\ dir' = w.dir /\ sf' = w.sf /\ lk' = w.lk /\ mk' = w.mk
        /\ snap' = w.snap /\ cyc' = w.cyc /\ overflow' = w.overflow
        /\ dry' = w.dry /\ exc' = w.exc

NoLast == [op |-> "init", s |-> 0, arg |-> "", num |-> 0,
           preStatus |-> "", preSf |-> 0, preHeld |-> FALSE, preLocked |-> FALSE,
           entered |-> FALSE, bodyExc |-> "none"]

(* The record of an operation op on snapshot s, taken before it runs *)
Seen(op, s, arg, num) ==
    [op |-> op, s |-> s, arg |-> arg, num |-> num,
     preStatus |-> snap[s].status,
     preSf |-> sf[statusfile(World, s)],
     preHeld |-> SnapHolds(World, s),
     preLocked |-> is_locked(World, lockfile(World, s)),
     entered |-> FALSE, bodyExc |-> "none"]

NoResult == [call |-> "none", out |-> "none", contended |-> FALSE]

EmptyFs ==
    /\ dir = [n \in Names |-> "absent"]
    /\ sf = [n \in Names |-> 0]
    /\ lk = {}
    /\ mk = {}

Idle ==
    /\ pc = [o \in Owners |-> "idle"]
    /\ res = [o \in Owners |-> NoResult]
    /\ eng = [pc |-> "idle"]

----------------------------------------------------------------------------
(* Spec: retention.  A tree of hourly snapshot directories is read by      *)
(* Cycle("hourly"), Cycle("daily") and Cycle("weekly"), chained through    *)
(* overflow_cycle; the cycles are purged and another process may hold the  *)
(* lock of a snapshot.                                                     *)

Keeps == 0..MaxKeep

(* What a directory of the tree looks like for the status it will be read  *)
(* as: a status file for the dirty statuses, a non-empty tree otherwise.   *)
OnDisk == [x \in {"complete", "deleting", "syncing", "flagged"} |->
              [dir |-> "full", sf |-> IF x \in Dirty THEN Value(x) ELSE 0]]

(* The trees whose timestamped directories bear instants of T *)
TreesOver(T) ==
    {f \in [Stamps -> {"none", "complete", "deleting", "syncing", "flagged"}] :
        /\ Cardinality({st \in Stamps : f[st] # "none"}) <= MaxSnapshots
        /\ \A st \in Times : f[st] \in {"none", "complete", "deleting"}
        /\ \A st \in Times \ T : f[st] = "none"
        /\ f[WipStamp] # "deleting"}

TreeTimes == {AllTimes[i] : i \in 1..MaxTreeTimes}
Trees == TreesOver(TreeTimes)

TreeWorld(f, chain, k1, k2) ==
    [dir |-> [n \in Names |-> IF n[1] = "hourly" /\ f[n[2]] # "none"
                              THEN OnDisk[f[n[2]]].dir ELSE "absent"],
     sf |-> [n \in Names |-> IF n[1] = "hourly" /\ f[n[2]] # "none"
                             THEN OnDisk[f[n[2]]].sf ELSE 0],
     lk |-> {}, mk |-> {},
     snap |-> [s \in SnapIds |-> Unborn],
     cyc |-> [i \in Intervals |-> <<>>],
     overflow |-> [i \in Intervals |->
                      IF i = "hourly" /\ chain >= 1
                      THEN [to |-> "daily", keep |-> k1]
                      ELSE IF i = "daily" /\ chain >= 2
                      THEN [to |-> "weekly", keep |-> k2]
                      ELSE [to |-> "none", keep |-> 0]],
     dry |-> FALSE, exc |-> "none"]

InitFrom(trees) ==
    \E f \in trees, chain \in 0..2, k1 \in Keeps, k2 \in Keeps :
        \E w \in {The({NewCycle(wd, "weekly") :
                        wd \in {NewCycle(wh, "daily") :
                                wh \in {NewCycle(wt, "hourly") :
                                        wt \in {TreeWorld(f, chain, k1, k2)}}}})} :
            /\ chain # 1 => k1 = 0
            /\ k2 = (IF chain = 2 THEN MaxKeep ELSE 0)
            /\ dir = w.dir /\ sf = w.sf /\ lk = w.lk /\ mk = w.mk
            /\ snap = w.snap /\ cyc = w.cyc /\ overflow = w.overflow
            /\ dry = w.dry /\ exc = w.exc
            /\ last = NoLast
            /\ Idle

(* cycle.purge(maxnumber) *)
PurgeAct ==
    \E iv \in Intervals, maxnumber \in Keeps :
        /\ Commit(purge(World, iv, maxnumber))
        /\ last' = [NoLast EXCEPT !.op = "purge", !.arg = iv, !.num = maxnumber]
        /\ UNCHANGED <<pc, res, eng>>

(* Another process takes the lock of a snapshot directory, or gives it back *)
OtherLocksAct ==
    \E n \in Names :
        LET w1 == acquire(World, n, Foreign)
        IN  /\ n[1] = "hourly" /\ dir[n] # "absent"
            /\ \A m \in mk : m[2] # Foreign
            /\ Ok(w1)
            /\ Commit(Raise(w1, exc))
            /\ UNCHANGED <<last, pc, res, eng>>

OtherUnlocksAct ==
    \E n \in Names :
        LET w1 == release(World, n, Foreign)
        IN  /\ Ok(w1)
            /\ Commit(Raise(w1, exc))
            /\ UNCHANGED <<last, pc, res, eng>>

Next == PurgeAct \/ OtherLocksAct \/ OtherUnlocksAct

Init == InitFrom(Trees)

Spec == Init /\ [][Next]_vars

(* SpecDay: the same, over trees whose snapshots were all made within one  *)
(* day.                                                                    *)
DayTimes == {t \in Times : t < DAY}
DayTrees == TreesOver(DayTimes)

InitDay == InitFrom(DayTrees)

SpecDay == InitDay /\ [][Next]_vars

----------------------------------------------------------------------------
(* create_new_snapshot (cycle.py), one step per iteration of its polling   *)
(* loop.  The engine is seen through the calls the method makes on it:     *)
(* wait(0.1) times out or returns a code, kill_switch_event.is_set() is    *)
(* read once per iteration.                                                *)

MaxCreates == 2          \* calls of create_new_snapshot in one run

TheCycle == "hourly"
ReturnCodes == {0, 23, 255}        \* success, a code of RSYNC_E_CODES, one not in it
KnownCodes == {23}

(* Mutant of RefusesFlagged: a flagged snapshot is resumed without --force *)
RefusesNever(w, iv, force) == FALSE

(* len(self.snapshots) > 0 and snapshots[0].status is flagged and not force *)
RefusesFlagged(w, iv, force) ==
    /\ Len(w.cyc[iv]) > 0
    /\ w.snap[w.cyc[iv][1]].status = "flagged"
    /\ ~force

(* Mutant of Resumes: an aborted sync is never resumed *)
ResumesNever(w, iv) == FALSE

Resumes(w, iv) ==
    /\ Len(w.cyc[iv]) > 0
    /\ w.snap[w.cyc[iv][1]].status \in {"syncing", "flagged"}

(* Mutant of KillSwitchFires: the flag is never acted upon *)
KillSwitchIgnored(flag, force) == FALSE

(* engine.kill_switch_event.is_set() and not force *)
KillSwitchFires(flag, force) == flag /\ ~force

(* Mutant of ScanLinkdest: the status of the snapshot is not looked at *)
RECURSIVE ScanTakesDirty(_, _, _)
ScanTakesDirty(w, list, i) ==
    IF i > Len(list) THEN [s |-> 0, exc |-> "none"]
    ELSE IF ~is_locked(w, lockfile(w, list[i]))
         THEN [s |-> list[i], exc |-> "none"]
    ELSE ScanTakesDirty(w, list, i + 1)

(* get_linkdest: the first snapshot that is complete and not locked (0 for *)
(* None), or the exception a status read raises                            *)
RECURSIVE ScanLinkdest(_, _, _)
ScanLinkdest(w, list, i) ==
    IF i > Len(list) THEN [s |-> 0, exc |-> "none"]
    ELSE IF StatusFileCheck(w, list[i]) # "none"
         THEN [s |-> 0, exc |-> StatusFileCheck(w, list[i])]
    ELSE IF w.snap[list[i]].status = "complete"
            /\ ~is_locked(w, lockfile(w, list[i]))
         THEN [s |-> list[i], exc |-> "none"]
    ELSE ScanLinkdest(w, list, i + 1)

(* Mutant of get_linkdest: no snapshot is ever offered *)
NoLinkdest(w, iv) == [s |-> 0, exc |-> "none"]

get_linkdest(w, iv) == ScanLinkdest(w, w.cyc[iv], 1)

(* snapshot = Snapshot(self.dir, self.interval); insert(0, snapshot);      *)
(* with snapshot: snapshot.mkdir(); snapshot.status = Status.syncing       *)
CreateBlank(w, iv, s) ==
    The({The({IF ~Ok(w2) THEN w2
              ELSE The({SnapExit(IF Ok(w3) THEN SetStatus(w3, s, "syncing")
                                 ELSE w3, s) :
                        w3 \in {mkdir(w2, s)}}) :
              w2 \in {SnapAcquire([w1 EXCEPT !.cyc[iv] = <<s>> \o @], s)}}) :
         w1 \in {NewSnapshot(w, s, iv, None)}})

(* The pipes of the engine: sync_to() opens them, close_pipes() closes them *)
sync_to(pipes) == "open"

(* Mutant of close_pipes: the pipes are left as they are *)
ClosePipesNever(pipes) == pipes

close_pipes(pipes) == "closed"

(* Mutant of FinallyRelease: the lock of the link-dest is kept *)
FinallyKeepsLock(w, ld) == w

(* finally: engine.close_pipes(); if linkdest is not None: release() *)
FinallyRelease(w, ld) ==
    IF ld = 0 THEN w
    ELSE The({IF Ok(w1) THEN Raise(w1, w.exc) ELSE w1 :
              w1 \in {SnapRelease(Raise(w, "none"), ld)}})

(* with snapshot: linkdest = get_linkdest(); try: linkdest.acquire();      *)
(* engine.sync_to(...).  Returns the world, the link-dest and whether the  *)
(* transfer was launched; on an exception the scopes are left.             *)
EnterSync(w, iv, s) ==
    The({IF ~Ok(w1) THEN [w |-> w1, ld |-> 0, launched |-> FALSE,
                          entered |-> FALSE]
         ELSE The({IF r.exc # "none"
                   THEN [w |-> SnapExit(Raise(w1, r.exc), s), ld |-> 0,
                         launched |-> FALSE, entered |-> FALSE]
                   ELSE IF r.s = 0 THEN [w |-> w1, ld |-> 0, launched |-> TRUE,
                                         entered |-> TRUE]
                   ELSE The({IF Ok(w2) THEN [w |-> w2, ld |-> r.s, launched |-> TRUE,
                                             entered |-> TRUE]
                             ELSE [w |-> SnapExit(FinallyRelease(w2, r.s), s),
                                   ld |-> r.s, launched |-> FALSE,
                                   entered |-> TRUE] :
                             w2 \in {SnapAcquire(w1, r.s)}}) :
                   r \in {get_linkdest(w1, iv)}}) :
         w1 \in {SnapAcquire(w, s)}})

(* create_new_snapshot up to the first wait() *)
Begin(w, iv, force) ==
    LET chk == IF Len(w.cyc[iv]) > 0 THEN StatusFileCheck(w, w.cyc[iv][1])
               ELSE "none"
        none == [ld |-> 0, launched |-> FALSE, entered |-> FALSE]
    IN  IF chk # "none"
        THEN [w |-> Raise(w, chk), s |-> 0, branch |-> "none"] @@ none
        ELSE IF RefusesFlagged(w, iv, force)
        THEN [w |-> Raise(w, "FlaggedSnapshotError"), s |-> w.cyc[iv][1],
              branch |-> "refused"] @@ none
        ELSE IF Resumes(w, iv)
        THEN [s |-> w.cyc[iv][1], branch |-> "resumed"]
             @@ EnterSync(w, iv, w.cyc[iv][1])
        ELSE The({IF Ok(w1)
                  THEN [s |-> FreshId(w), branch |-> "created"]
                       @@ EnterSync(w1, iv, FreshId(w))
                  ELSE [w |-> w1, s |-> FreshId(w), branch |-> "created"] @@ none :
                  w1 \in {CreateBlank(w, iv, FreshId(w))}})

(* The kill switch fired: process.kill(); snapshot.status = flagged;       *)
(* raise FlaggedSnapshotError; then the finally clause and the scope exit  *)
KillBranch(w, s, ld) ==
    The({SnapExit(FinallyRelease(IF Ok(w1) THEN Raise(w1, "FlaggedSnapshotError")
                                 ELSE w1, ld), s) :
         w1 \in {SetStatus(w, s, "flagged")}})

(* Mutant of ReturnCodeError: the exit code is not looked at *)
ReturnCodeIgnored(rc) == "none"

(* RuntimeError("Engine returned {} ({})".format(rc, RSYNC_E_CODES[rc])) *)
ReturnCodeError(rc) ==
    IF rc > 0 THEN (IF rc \in KnownCodes THEN "RuntimeError" ELSE "KeyError")
    ELSE "none"

(* wait() returned rc: the check of the code, the finally clause, then     *)
(* status = complete, timestamp = now and the scope exit                   *)
Finish(w, s, ld, rc, now) ==
    The({IF ~Ok(w1) THEN SnapExit(w1, s)
         ELSE The({The({SnapExit(w3, s) :
                        w3 \in {IF Ok(w2) THEN SetTimestamp(w2, s, now) ELSE w2}}) :
                   w2 \in {SetStatus(w1, s, "complete")}}) :
         w1 \in {FinallyRelease(Raise(w, ReturnCodeError(rc)), ld)}})

----------------------------------------------------------------------------
(* SpecCreate: Cycle("hourly") over a tree of hourly snapshots makes new   *)
(* snapshots; another process may hold the lock of a snapshot.             *)

NoEngine ==
    [pc |-> "idle", n |-> 0, force |-> FALSE, s |-> 0, linkdest |-> 0,
     polls |-> 0, kill |-> FALSE, killed |-> FALSE, rc |-> None,
     out |-> "none", branch |-> "none", launched |-> FALSE,
     pipes |-> "none", terminated |-> "no", waited |-> FALSE]

InitCreate ==
    \E f \in Trees :
        \E w \in {NewCycle(wt, TheCycle) : wt \in {TreeWorld(f, 0, 0, 0)}} :
            /\ Cardinality({st \in Stamps : f[st] # "none"}) < MaxSnapshots
            /\ dir = w.dir /\ sf = w.sf /\ lk = w.lk /\ mk = w.mk
            /\ snap = w.snap /\ cyc = w.cyc /\ overflow = w.overflow
            /\ dry = w.dry /\ exc = w.exc
            /\ last = NoLast
            /\ pc = [o \in Owners |-> "idle"]
            /\ res = [o \in Owners |-> NoResult]
            /\ eng = NoEngine

(* cycle.create_new_snapshot(engine, force) is called *)
CreateBeginAct ==
    \E force \in BOOLEAN :
        /\ eng.pc \in {"idle", "done"}
        /\ eng.n < MaxCreates
        /\ \E s \in SnapIds : snap[s].status = "unborn"
        /\ \E r \in {Begin(World, TheCycle, force)} :
            /\ Commit(r.w)
            /\ eng' = [NoEngine EXCEPT
                          !.pc = IF Ok(r.w) THEN "polling" ELSE "done",
                          !.n = eng.n + 1, !.force = force, !.s = r.s,
                          !.linkdest = r.ld, !.out = r.w.exc,
                          !.branch = r.branch, !.launched = r.launched,
                          !.pipes = IF r.launched THEN sync_to("none")
                                    ELSE IF r.entered THEN close_pipes("none")
                                    ELSE "none"]
        /\ last' = [NoLast EXCEPT !.op = "create"]
        /\ UNCHANGED <<pc, res>>

(* wait(0.1) raised TimeoutExpired and the kill switch did not fire *)
PollTimeoutAct ==
    \E flag \in BOOLEAN :
        /\ eng.pc = "polling"
        /\ eng.polls < MaxPolls
        /\ ~KillSwitchFires(flag, eng.force)
        /\ eng' = [eng EXCEPT !.polls = @ + 1, !.kill = @ \/ flag]
        /\ UNCHANGED <<dir, sf, lk, mk, snap, cyc, overflow, dry, exc, last,
                       pc, res>>

(* An iteration, timed out or not, at whose end the kill switch fires *)
PollKillAct ==
    \E outcome \in {None} \cup ReturnCodes :
        /\ eng.pc = "polling"
        /\ KillSwitchFires(TRUE, eng.force)
        /\ \E w \in {KillBranch(World, eng.s, eng.linkdest)} :
            /\ Commit(w)
            /\ eng' = [eng EXCEPT !.pc = "done", !.kill = TRUE, !.killed = TRUE,
                                  !.rc = outcome, !.out = w.exc,
                                  !.pipes = close_pipes(@)]
        /\ UNCHANGED <<last, pc, res>>

(* wait(0.1) returned the exit code and the kill switch did not fire *)
PollReturnAct ==
    \E rc \in ReturnCodes, flag \in BOOLEAN, now \in Times :
        /\ eng.pc = "polling"
        /\ ~KillSwitchFires(flag, eng.force)
        /\ \E w \in {Finish(World, eng.s, eng.linkdest, rc, now)} :
            /\ Commit(w)
            /\ eng' = [eng EXCEPT !.pc = "done", !.kill = @ \/ flag,
                                  !.rc = rc,
                                  !.out = IF Ok(w) THEN "returned" ELSE w.exc,
                                  !.pipes = close_pipes(@)]
        /\ UNCHANGED <<last, pc, res>>

NextCreate ==
    \/ CreateBeginAct \/ PollTimeoutAct \/ PollKillAct \/ PollReturnAct
    \/ OtherLocksAct \/ OtherUnlocksAct

SpecCreate == InitCreate /\ [][NextCreate]_vars

----------------------------------------------------------------------------
(* SpecSnap: one Snapshot object over a tree that holds at most its own    *)
(* directory, status file and lock; another process may take its lock.     *)

TheSnap == 1
SnapTimes == {AllTimes[i] : i \in 1..MaxSnapTimes}
SnapIntervals == {"hourly", "daily"}

InitSnap ==
    \E ts \in SnapTimes \cup {None}, d \in {"absent", "empty", "full"},
       code \in {0} \cup {Value(st) : st \in Dirty},
       held \in BOOLEAN, dr \in {FALSE} :
      LET n == <<"hourly", stimestamp(ts)>>
          w0 == [dir |-> [x \in Names |-> IF x = n THEN d ELSE "absent"],
                 sf |-> [x \in Names |-> IF x = n THEN code ELSE 0],
                 lk |-> IF held THEN {n} ELSE {},
                 mk |-> IF held THEN {<<n, Foreign>>} ELSE {},
                 snap |-> [s \in SnapIds |-> Unborn],
                 cyc |-> [i \in Intervals |-> <<>>],
                 overflow |-> [i \in Intervals |-> [to |-> "none", keep |-> 0]],
                 dry |-> dr, exc |-> "none"]
          w1 == NewSnapshot(w0, TheSnap, "hourly", ts)
      IN  /\ Ok(w1)
          /\ dir = w1.dir /\ sf = w1.sf /\ lk = w1.lk /\ mk = w1.mk
          /\ snap = w1.snap /\ cyc = w1.cyc /\ overflow = w1.overflow
          /\ dry = w1.dry /\ exc = "none"
          /\ last = NoLast
          /\ Idle

(* The body of a scope or a plain call: one Snapshot method *)
Bodies == {"mkdir", "delete"} \cup Status

RunBody(w, s, body) ==
    CASE body = "mkdir" -> mkdir(w, s)
      [] body = "delete" -> delete(w, s)
      [] OTHER -> SetStatus(w, s, body)

SnapMkdirAct ==
    /\ Commit(mkdir(World, TheSnap))
    /\ last' = Seen("mkdir", TheSnap, "", 0)
    /\ UNCHANGED <<pc, res, eng>>

SnapSetStatusAct ==
    \E new \in Status :
        /\ Commit(SetStatus(World, TheSnap, new))
        /\ last' = Seen("status", TheSnap, new, 0)
        /\ UNCHANGED <<pc, res, eng>>

SnapDeleteAct ==
    /\ Commit(delete(World, TheSnap))
    /\ last' = Seen("delete", TheSnap, "", 0)
    /\ UNCHANGED <<pc, res, eng>>

SnapSetTimestampAct ==
    \E v \in SnapTimes :
        /\ Commit(SetTimestamp(World, TheSnap, v))
        /\ last' = Seen("timestamp", TheSnap, "", v)
        /\ UNCHANGED <<pc, res, eng>>

SnapSetIntervalAct ==
    \E v \in SnapIntervals :
        /\ Commit(SetInterval(World, TheSnap, v))
        /\ last' = Seen("interval", TheSnap, v, 0)
        /\ UNCHANGED <<pc, res, eng>>

SnapAcquireAct ==
    /\ Commit(SnapAcquire(World, TheSnap))
    /\ last' = Seen("acquire", TheSnap, "", 0)
    /\ UNCHANGED <<pc, res, eng>>

SnapReleaseAct ==
    /\ Commit(SnapRelease(World, TheSnap))
    /\ last' = Seen("release", TheSnap, "", 0)
    /\ UNCHANGED <<pc, res, eng>>

SnapBreakLockAct ==
    /\ Commit(break_lock(World, lockfile(World, TheSnap)))
    /\ last' = Seen("break_lock", TheSnap, "", 0)
    /\ UNCHANGED <<pc, res, eng>>

(* with snapshot: <body> *)
SnapWithAct ==
    \E body \in Bodies :
        \E w1 \in {SnapAcquire(World, TheSnap)} :
        \E w2 \in {RunBody(w1, TheSnap, body)} :
            /\ Commit(IF Ok(w1) THEN SnapExit(w2, TheSnap) ELSE w1)
            /\ last' = [Seen("with", TheSnap, body, 0) EXCEPT
                           !.entered = Ok(w1),
                           !.bodyExc = IF Ok(w1) THEN w2.exc ELSE "none"]
            /\ UNCHANGED <<pc, res, eng>>

(* Another process takes or gives back the lock of the snapshot's name *)
ForeignAcquireAct ==
    LET w1 == acquire(World, lockfile(World, TheSnap), Foreign)
    IN  /\ Ok(w1)
        /\ Commit(Raise(w1, exc))
        /\ UNCHANGED <<last, pc, res, eng>>

ForeignReleaseAct ==
    LET w1 == release(World, lockfile(World, TheSnap), Foreign)
    IN  /\ Ok(w1)
        /\ Commit(Raise(w1, exc))
        /\ UNCHANGED <<last, pc, res, eng>>

NextSnap ==
    \/ SnapMkdirAct \/ SnapSetStatusAct \/ SnapDeleteAct
    \/ SnapSetTimestampAct \/ SnapSetIntervalAct
    \/ SnapAcquireAct \/ SnapReleaseAct \/ SnapBreakLockAct
    \/ SnapWithAct \/ ForeignAcquireAct \/ ForeignReleaseAct

SpecSnap == InitSnap /\ [][NextSnap]_vars

----------------------------------------------------------------------------
(* SpecLock: several owners call acquire() and release() on one lock path, *)
(* one system call at a time.                                              *)

LockName == <<"hourly", WipStamp>>
LockOwners == {o \in Owners : o < MaxLockOwners}

InitLock ==
    /\ EmptyFs
    /\ snap = [s \in SnapIds |-> Unborn]
    /\ cyc = [i \in Intervals |-> <<>>]
    /\ overflow = [i \in Intervals |-> [to |-> "none", keep |-> 0]]
    /\ dry = FALSE /\ exc = "none" /\ last = NoLast
    /\ Idle

(* o is the owner the lock directory belongs to: it made the directory and *)
(* has not removed it yet.                                                 *)
Occupant(o) ==
    \/ pc[o] = "acq_marker"
    \/ <<LockName, o>> \in mk
    \/ pc[o] = "rel_rmdir"

Step(o, to) == pc' = [pc EXCEPT ![o] = to]
Return(o, out) ==
    /\ pc' = [pc EXCEPT ![o] = "idle"]
    /\ res' = [res EXCEPT ![o].out = out]

LockFrame == UNCHANGED <<dir, sf, snap, cyc, overflow, dry, exc, last, eng>>

(* acquire(): os.mkdir(self.lockfile) *)
AcqMkdir(o) ==
    /\ pc[o] = "idle"
    /\ LET w1 == LockMkdir(World, LockName)
       IN  /\ lk' = w1.lk
           /\ Step(o, IF Ok(w1) THEN "acq_marker" ELSE "acq_exists")
    /\ res' = [res EXCEPT ![o] =
                 [call |-> "acquire", out |-> "none",
                  contended |-> \E p \in LockOwners \ {o} : Occupant(p)]]
    /\ UNCHANGED mk /\ LockFrame

(* acquire(): open(self._unique_name, "wb").close() *)
AcqMarker(o) ==
    /\ pc[o] = "acq_marker"
    /\ LET w1 == MarkerCreate(World, LockName, o)
       IN  /\ mk' = w1.mk
           /\ Return(o, IF Ok(w1) THEN "acquired" ELSE w1.exc)
    /\ UNCHANGED lk /\ LockFrame

(* acquire(): except OSError, errno EEXIST: os.access(self._unique_name) *)
AcqExists(o) ==
    /\ pc[o] = "acq_exists"
    /\ LET w1 == AcquireExisting(World, LockName, o)
       IN  Return(o, IF Ok(w1) THEN "acquired" ELSE w1.exc)
    /\ UNCHANGED <<lk, mk>> /\ LockFrame

(* release(): if not self.is_locked() *)
RelIsLocked(o) ==
    /\ pc[o] = "idle"
    /\ IF is_locked(World, LockName)
       THEN /\ Step(o, "rel_check")
            /\ res' = [res EXCEPT ![o].call = "release"]
       ELSE /\ pc' = pc
            /\ res' = [res EXCEPT ![o] = [call |-> "release",
                          out |-> "AlreadyUnlocked", contended |-> FALSE]]
    /\ UNCHANGED <<lk, mk>> /\ LockFrame

(* release(): elif not os.access(self._unique_name) *)
RelCheck(o) ==
    /\ pc[o] = "rel_check"
    /\ IF <<LockName, o>> \in mk
       THEN Step(o, "rel_remove") /\ UNCHANGED res
       ELSE Return(o, "NotMyLock")
    /\ UNCHANGED <<lk, mk>> /\ LockFrame

(* release(): os.remove(self._unique_name) *)
RelRemove(o) ==
    /\ pc[o] = "rel_remove"
    /\ LET w1 == MarkerRemove(World, LockName, o)
       IN  /\ mk' = w1.mk
           /\ IF Ok(w1) THEN Step(o, "rel_rmdir") /\ UNCHANGED res
              ELSE Return(o, w1.exc)
    /\ UNCHANGED lk /\ LockFrame

(* release(): os.rmdir(self.lockfile) *)
RelRmdir(o) ==
    /\ pc[o] = "rel_rmdir"
    /\ LET w1 == LockRmdir(World, LockName)
       IN  /\ lk' = w1.lk
           /\ Return(o, IF Ok(w1) THEN "released" ELSE w1.exc)
    /\ UNCHANGED mk /\ LockFrame

NextLock ==
    \E o \in LockOwners :
        \/ AcqMkdir(o) \/ AcqMarker(o) \/ AcqExists(o)
        \/ RelIsLocked(o) \/ RelCheck(o) \/ RelRemove(o) \/ RelRmdir(o)

SpecLock == InitLock /\ [][NextLock]_vars

(* C2: of the owners that call acquire() on one lock path, under every     *)
(* interleaving of their mkdir and marker steps, at most one has acquired  *)
(* the lock and not released it; that owner holds the lock; the lock       *)
(* directory always belongs to exactly one owner; and an acquire() whose   *)
(* mkdir ran while the directory belonged to another owner raises          *)
(* AlreadyLocked, while one whose mkdir ran on a free lock succeeds.       *)
C2_MutualExclusion ==
    /\ Cardinality({o \in LockOwners : res[o].out = "acquired"}) <= 1
    /\ Cardinality({o \in LockOwners : <<LockName, o>> \in mk}) <= 1
    /\ Cardinality({o \in LockOwners : Occupant(o)})
          = IF LockName \in lk THEN 1 ELSE 0
    /\ \A o \in LockOwners :
          /\ (res[o].out = "acquired" /\ pc[o] = "idle")
                => i_am_locking(World, LockName, o)
          /\ (res[o].call = "acquire" /\ pc[o] = "idle")
                => res[o].out = IF res[o].contended
                                THEN "AlreadyLocked" ELSE "acquired"

(* two owners inside acquire() at once: one won the mkdir and has not yet  *)
(* written its marker, the other has already been refused                  *)
C2_Witness ==
    \E a, b \in LockOwners :
        /\ a # b
        /\ pc[a] = "acq_marker"
        /\ pc[b] = "idle" /\ res[b].call = "acquire"
        /\ res[b].contended /\ res[b].out = "AlreadyLocked"

----------------------------------------------------------------------------
(* Claims about one Snapshot (checked under SpecSnap) *)

CurName == statusfile(World, TheSnap)
CurStatus == snap[TheSnap].status

(* The legal edges of the status state machine *)
LegalEdges ==
    {<<"void", "blank">>, <<"blank", "syncing">>, <<"syncing", "complete">>,
     <<"syncing", "flagged">>, <<"flagged", "syncing">>, <<"flagged", "complete">>,
     <<"complete", "deleting">>, <<"deleting", "deleted">>, <<"deleted", "deleted">>}
    \cup {<<st, "deleting">> : st \in {"blank", "syncing", "flagged", "deleting"}}

(* C5: a status assignment that is not a legal edge raises and leaves the  *)
(* in-memory status and the status file unchanged.                         *)
C5_IllegalTransitionRaises ==
    (last.op = "status" /\ last.preStatus # last.arg
        /\ <<last.preStatus, last.arg>> \notin LegalEdges)
        => /\ exc # "none"
           /\ CurStatus = last.preStatus
           /\ sf[CurName] = last.preSf

(* C6: once the status is deleted it stays deleted: every operation on a   *)
(* deleted snapshot leaves it deleted; a status assignment other than      *)
(* deleted, and delete(), raise RuntimeError and create no status file;    *)
(* assigning deleted again succeeds.                                       *)
C6_DeletedIsAbsorbing ==
    last.preStatus = "deleted" =>
        /\ CurStatus = "deleted"
        /\ last.op \in {"status", "delete"} =>
              /\ sf[CurName] = 0
              /\ IF last.op = "status" /\ last.arg = "deleted"
                 THEN exc = "none" ELSE exc = "RuntimeError"

C6_Witness ==
    /\ last.preStatus = "deleted" /\ last.op = "status"
    /\ last.arg = "syncing" /\ exc = "RuntimeError"

(* C7: outside a dry run the status file exists under the snapshot's       *)
(* current name exactly when the status is syncing, flagged or deleting,   *)
(* and then holds that status's numeric code.                              *)
C7_StatusFileAgrees ==
    ~dry => /\ (sf[CurName] # 0) <=> (CurStatus \in Dirty)
            /\ CurStatus \in Dirty => sf[CurName] = Value(CurStatus)

C7_Witness ==
    /\ last.op \in {"timestamp", "interval"} /\ <<last.arg, last.num>> # <<"", 0>>
    /\ CurStatus = "flagged" /\ sf[CurName] = Value("flagged")
    /\ snap[TheSnap].interval = "daily" /\ snap[TheSnap].timestamp # None

C9_ScopeKeepsLockOnException ==
    (last.op = "with" /\ last.entered)
        => IF last.bodyExc = "none"
           THEN ~is_locked(World, lockfile(World, TheSnap))
           ELSE SnapHolds(World, TheSnap)


----------------------------------------------------------------------------
(* Retention claims, checked under Spec *)

CompleteInList(iv) ==
    Cardinality({i \in 1..Len(cyc[iv]) : snap[cyc[iv][i]].status = "complete"})

(* A directory of the interval that a Cycle would read as complete *)
CompleteOnDisk(iv) ==
    Cardinality({st \in Stamps : dir[<<iv, st>>] = "full" /\ sf[<<iv, st>>] = 0})

PurgeReturned == last.op = "purge" /\ exc = "none"

(* C1: after purge(N) returns, for any N >= 0 (N = 0 included), at most N  *)
(* snapshots of the purged cycle are complete, in its list and on disk.    *)
C1_PurgeKeepsAtMostN ==
    PurgeReturned =>
        /\ CompleteInList(last.arg) <= last.num
        /\ CompleteOnDisk(last.arg) <= last.num

FedCycles == {"daily", "weekly"}

(* C3: in a cycle that started empty and is filled by feed(), any two      *)
(* adjacent snapshots of the list are at least the cycle's spacing apart   *)
(* (the list is newest first).                                             *)
C3_FeedSpacing ==
    \A iv \in FedCycles : \A i \in 1..(Len(cyc[iv]) - 1) :
        LET newer == snap[cyc[iv][i]].timestamp
            older == snap[cyc[iv][i + 1]].timestamp
        IN  /\ newer # None /\ older # None
            /\ newer - older >= TIMEDELTA(iv)

(* feed() has put a second snapshot in front of the first one it took *)
C3_Witness ==
    /\ PurgeReturned
    /\ \E iv \in FedCycles : Len(cyc[iv]) >= 2


----------------------------------------------------------------------------
(* Claims on create_new_snapshot, checked under SpecCreate *)

WipName == <<TheCycle, WipStamp>>

(* C4: when the kill switch is seen set at an iteration of the polling     *)
(* loop and force is false, the loop ends there: the process is killed,    *)
(* the snapshot is flagged (status file written, still the wip directory,  *)
(* no timestamp) and FlaggedSnapshotError is raised.  When it is never     *)
(* seen set and the tool exits 0, no FlaggedSnapshotError is raised.       *)
C4_KillSwitch ==
    /\ (eng.pc = "polling" /\ eng.kill) => eng.force
    /\ (eng.pc = "done" /\ eng.kill /\ ~eng.force) =>
          /\ eng.killed
          /\ eng.out = "FlaggedSnapshotError"
          /\ snap[eng.s].status = "flagged"
          /\ snap[eng.s].timestamp = None
          /\ sf[WipName] = Value("flagged")
          /\ dir[WipName] # "absent"
    /\ (eng.pc = "done" /\ eng.launched /\ ~eng.kill /\ eng.rc = 0) =>
          eng.out # "FlaggedSnapshotError"

(* The kill switch fired after at least one iteration that timed out *)
C4_Witness ==
    /\ eng.pc = "done" /\ eng.kill /\ ~eng.force
    /\ eng.polls >= 1 /\ eng.killed
    /\ snap[eng.s].status = "flagged"

(* A call of create_new_snapshot without force on a cycle whose newest     *)
(* snapshot is flagged                                                     *)
C10_Case ==
    /\ eng'.n = eng.n + 1 /\ ~eng'.force
    /\ Len(cyc[TheCycle]) > 0
    /\ snap[cyc[TheCycle][1]].status = "flagged"

(* C10: such a call raises FlaggedSnapshotError before any transfer is     *)
(* launched and changes nothing: the list, the directories, the locks, the *)
(* status files and the snapshot's status stay as they were.               *)
C10_FlaggedWithoutForce ==
    [][C10_Case =>
          /\ exc' = "FlaggedSnapshotError"
          /\ eng'.pc = "done" /\ ~eng'.launched
          /\ UNCHANGED <<dir, sf, lk, mk, snap, cyc>>]_vars

C10_Witness ==
    /\ eng.pc = "done" /\ eng.branch = "refused"
    /\ exc = "FlaggedSnapshotError"
    /\ snap[cyc[TheCycle][1]].status = "flagged"

(* A call of create_new_snapshot on a cycle whose newest snapshot is the   *)
(* wip directory of an aborted sync: status syncing on file, no lock left  *)
C11_Case ==
    /\ eng'.n = eng.n + 1
    /\ Len(cyc[TheCycle]) > 0
    /\ snap[cyc[TheCycle][1]].status = "syncing"
    /\ snap[cyc[TheCycle][1]].timestamp = None
    /\ sf[WipName] = Value("syncing")
    /\ dir[WipName] # "absent"
    /\ WipName \notin lk

(* The transfer of a resumed, unflagged snapshot ends with success *)
C11_Success ==
    /\ eng.pc = "polling" /\ eng.branch = "resumed"
    /\ snap[eng.s].status = "syncing"
    /\ eng'.pc = "done" /\ eng'.out = "returned"

(* C11: the call constructs no snapshot and creates no directory, it      *)
(* launches the transfer into the wip directory; on success that very      *)
(* directory is renamed to the timestamp and is complete, and the list is  *)
(* as long as before.                                                      *)
C11_ResumeReusesDirectory ==
    [][/\ C11_Case =>
            /\ eng'.branch = "resumed" /\ eng'.launched
            /\ eng'.s = cyc[TheCycle][1]
            /\ cyc' = cyc /\ dir' = dir /\ snap' = snap
       /\ C11_Success =>
            /\ cyc' = cyc
            /\ snap'[eng.s].status = "complete"
            /\ snap'[eng.s].timestamp \in Times
            /\ dir' = [dir EXCEPT ![<<TheCycle, snap'[eng.s].timestamp>>] =
                                       dir[WipName],
                                  ![WipName] = "absent"]
            /\ sf'[<<TheCycle, snap'[eng.s].timestamp>>] = 0]_vars

C11_Witness ==
    /\ eng.pc = "done" /\ eng.branch = "resumed" /\ ~eng.force
    /\ eng.out = "returned"
    /\ snap[eng.s].status = "complete" /\ snap[eng.s].timestamp \in Times
    /\ dir[WipName] = "absent"

----------------------------------------------------------------------------
(* Claims on promotion, checked under SpecDay *)

Hourly == cyc["hourly"]
Newest == snap[Hourly[1]]
Oldest == snap[Hourly[Len(Hourly)]]

(* The first operation of a run is purge(1) of an unlocked hourly cycle of *)
(* k >= 2 complete snapshots made within one day, whose overflow cycle is  *)
(* an empty daily cycle that keeps 1.                                      *)
C12_Case ==
    /\ last.op = "init"
    /\ last'.op = "purge" /\ last'.arg = "hourly" /\ last'.num = 1
    /\ lk = {}
    /\ overflow["hourly"] = [to |-> "daily", keep |-> 1]
    /\ overflow["daily"].to = "none"
    /\ cyc["daily"] = <<>>
    /\ Len(Hourly) >= 2
    /\ \A i \in 1..Len(Hourly) :
          /\ snap[Hourly[i]].status = "complete"
          /\ snap[Hourly[i]].timestamp # None
    /\ Newest.timestamp - Oldest.timestamp < DAY

(* C12: afterwards the tree holds exactly the newest snapshot under the    *)
(* hourly name and the oldest one under the daily name; every other        *)
(* snapshot is deleted.                                                    *)
C12_PromotesOldestSurplus ==
    [][C12_Case =>
          /\ exc' = "none"
          /\ dir' = [n \in Names |->
                        IF n = <<"hourly", Newest.timestamp>>
                           \/ n = <<"daily", Oldest.timestamp>>
                        THEN "full" ELSE "absent"]
          /\ sf' = [n \in Names |-> 0]
          /\ lk' = {}
          /\ cyc'["hourly"] = <<Hourly[1]>>
          /\ cyc'["daily"] = <<Hourly[Len(Hourly)]>>
          /\ \A i \in 2..(Len(Hourly) - 1) :
                snap'[Hourly[i]].status = "deleted"]_vars

(* Three snapshots of one day: the oldest is daily, the middle one deleted *)
C12_Witness ==
    /\ last.op = "purge" /\ last.arg = "hourly" /\ last.num = 1
    /\ exc = "none"
    /\ Len(cyc["hourly"]) = 1 /\ Len(cyc["daily"]) = 1
    /\ \E s \in SnapIds :
          /\ snap[s].status = "deleted"
          /\ snap[cyc["daily"][1]].timestamp < snap[s].timestamp
          /\ snap[s].timestamp < snap[cyc["hourly"][1]].timestamp
          /\ snap[cyc["hourly"][1]].timestamp - snap[cyc["daily"][1]].timestamp < DAY

----------------------------------------------------------------------------
(* Claims on purge, checked under Spec *)

(* A step that is a call of purge while no snapshot of the tree is locked *)
PurgeUnlockedStep ==
    /\ lk = {} /\ last'.op = "purge"
    /\ \A m \in mk' : m[2] # Foreign

(* C13: purge(N), and the feed() it triggers, returns without raising for  *)
(* any N >= 0 and any cycle, with or without overflow cycle, whose         *)
(* snapshots are unlocked and have a status inferred from disk.            *)
C13_PurgeNeverRaises == [][PurgeUnlockedStep => exc' = "none"]_vars

----------------------------------------------------------------------------
(* Claims on the exit code of the transfer, checked under SpecCreate *)

(* C14: when the transfer exits with a positive code that the table of     *)
(* exit codes does not hold (255), create_new_snapshot raises RuntimeError *)
(* with a generic description: the lookup of the code does not fail.  The  *)
(* kill switch did not end the call.                                       *)
C14_UnknownCodeIsRuntimeError ==
    (/\ eng.pc = "done" /\ ~eng.killed
     /\ eng.rc # None /\ eng.rc > 0 /\ eng.rc \notin KnownCodes) =>
        eng.out = "RuntimeError"

----------------------------------------------------------------------------
(* Claims on release(), checked under SpecSnap *)

(* A step that is a call of release() on the snapshot *)
C15_ReleaseStep == last'.op = "release" /\ (last' # last \/ exc' # exc)

(* C15: release() on a lock that nobody holds raises AlreadyUnlocked;      *)
(* release() on a lock held by another owner raises NotMyLock; in both     *)
(* cases the lock directory and the markers stay as they were, so a holder *)
(* still holds the lock.  Only the holder's own release() removes the lock.*)
C15_FailedReleaseKeepsLock ==
    [][C15_ReleaseStep =>
          /\ ~last'.preLocked => exc' = "AlreadyUnlocked"
          /\ (last'.preLocked /\ ~last'.preHeld) => exc' = "NotMyLock"
          /\ exc' \in {"AlreadyUnlocked", "NotMyLock"} =>
                /\ lk' = lk /\ mk' = mk
                /\ i_am_locking(World, lockfile(World, TheSnap), Foreign) =>
                      <<lockfile(World, TheSnap), Foreign>> \in mk'
                      /\ lockfile(World, TheSnap) \in lk'
          /\ (lk' # lk \/ mk' # mk) =>
                /\ last'.preHeld /\ exc' = "none"
                /\ lk' = lk \ {lockfile(World, TheSnap)}
                /\ mk' = mk \ {<<lockfile(World, TheSnap), TheSnap>>}
    ]_vars

(* the snapshot's release() was refused while another process holds the    *)
(* lock, and that process still holds it                                   *)
C15_Witness ==
    /\ last.op = "release" /\ last.preLocked /\ ~last.preHeld
    /\ exc = "NotMyLock"
    /\ i_am_locking(World, lockfile(World, TheSnap), Foreign)

----------------------------------------------------------------------------
(* SpecInfer: a Snapshot object is constructed over a tree that holds any  *)
(* combination of its directory and its status file; infer_status() may    *)
(* then be called again.                                                   *)

MaxCode == 8
FileCodes == 0..MaxCode

InitInfer ==
    \E iv \in SnapIntervals, ts \in SnapTimes \cup {None},
       d \in {"absent", "empty", "full"}, code \in FileCodes, dr \in BOOLEAN :
      LET n == <<iv, stimestamp(ts)>>
      IN  /\ dir = [x \in Names |-> IF x = n THEN d ELSE "absent"]
          /\ sf = [x \in Names |-> IF x = n THEN code ELSE 0]
          /\ lk = {} /\ mk = {}
          /\ snap = [s \in SnapIds |-> Unborn]
          /\ cyc = [i \in Intervals |-> <<>>]
          /\ overflow = [i \in Intervals |-> [to |-> "none", keep |-> 0]]
          /\ dry = dr /\ exc = "none"
          /\ last = NoLast
          /\ Idle

(* Snapshot(dir, interval, timestamp) for the name the tree holds, or for  *)
(* hourly.wip over an empty tree                                           *)
ConstructAct ==
    \E n \in Names :
        /\ snap[TheSnap] = Unborn /\ last.op = "init"
        /\ dir[n] # "absent" \/ sf[n] # 0 \/ n = <<"hourly", WipStamp>>
        /\ \A x \in Names \ {n} : dir[x] = "absent" /\ sf[x] = 0
        /\ Commit(NewSnapshot(World, TheSnap, n[1],
                              IF n[2] = WipStamp THEN None ELSE n[2]))
        /\ last' = [NoLast EXCEPT !.op = "construct", !.s = TheSnap,
                                  !.arg = dir[n], !.preSf = sf[n]]
        /\ UNCHANGED <<pc, res, eng>>

(* snapshot.infer_status() on the constructed object *)
InferAgainAct ==
    /\ snap[TheSnap] # Unborn
    /\ Commit(infer_status(World, TheSnap))
    /\ last' = [NoLast EXCEPT !.op = "infer_status", !.s = TheSnap,
                              !.arg = dir[path(World, TheSnap)],
                              !.preSf = sf[statusfile(World, TheSnap)]]
    /\ UNCHANGED <<pc, res, eng>>

NextInfer == ConstructAct \/ InferAgainAct

SpecInfer == InitInfer /\ [][NextInfer]_vars

(* C16: constructing a Snapshot over any configuration of its directory    *)
(* (absent, empty, non-empty) and its status file (absent, or holding the  *)
(* value of a status) yields: void if the directory is absent; otherwise   *)
(* the status in the status file if there is one; otherwise complete if    *)
(* the directory is non-empty; otherwise blank.                            *)
C16_InferStatusClassification ==
    (last.op = "construct" /\ last.preSf \in 0..7) =>
        /\ exc = "none"
        /\ snap[TheSnap].status =
              IF last.arg = "absent" THEN "void"
              ELSE IF last.preSf # 0 THEN FromValue(last.preSf)
              ELSE IF last.arg = "full" THEN "complete"
              ELSE "blank"

(* a Snapshot was constructed for a name whose status file was left behind *)
(* without its directory                                                   *)
C16_Witness ==
    /\ last.op = "construct" /\ last.arg = "absent" /\ last.preSf = Value("syncing")
    /\ snap[TheSnap].status = "void"

----------------------------------------------------------------------------
(* Claims on the flagged status *)

(* C17: assigning syncing to a flagged snapshot, alone or as the body of a *)
(* scope, any number of times, leaves the status flagged in memory and in  *)
(* the status file; the plain assignment does not raise.  (SpecSnap)       *)
C17_FlaggedIsSticky ==
    (last.op \in {"status", "with"} /\ last.preStatus = "flagged"
        /\ last.arg = "syncing") =>
        /\ CurStatus = "flagged"
        /\ sf[CurName] = Value("flagged")
        /\ last.op = "status" => exc = "none"

(* syncing was assigned to a flagged snapshot *)
C17_Witness ==
    /\ last.op = "status" /\ last.preStatus = "flagged" /\ last.arg = "syncing"
    /\ exc = "none" /\ CurStatus = "flagged" /\ sf[CurName] = Value("flagged")

(* C17, the forced resume: a flagged snapshot handled by                   *)
(* create_new_snapshot stays flagged, with its status file, at every step  *)
(* of the call; it leaves flagged only by becoming complete, at the end of *)
(* a forced call whose transfer succeeded.  (SpecCreate)                   *)
C17_ForcedResumeStaysFlagged ==
    [][\A s \in SnapIds :
          (snap[s].status = "flagged" /\ snap'[s].status # "flagged") =>
              /\ snap'[s].status = "complete"
              /\ eng.pc = "polling" /\ eng.s = s /\ eng.force
              /\ eng.branch = "resumed"
              /\ eng'.pc = "done" /\ eng'.rc = 0
    ]_vars

(* a forced call is waiting for the transfer into a flagged snapshot *)
C17_ResumeWitness ==
    /\ eng.pc = "polling" /\ eng.force /\ eng.branch = "resumed"
    /\ eng.polls > 0
    /\ snap[eng.s].status = "flagged" /\ sf[WipName] = Value("flagged")

----------------------------------------------------------------------------
(* Claims on what purge and feed leave behind, checked under Spec *)

(* The lists of the Cycle objects agree with the tree: every entry is a    *)
(* snapshot of the cycle's interval that has not been deleted.  This holds *)
(* at construction and can only be lost by a purge that raised halfway,    *)
(* which skips the truncation of the list.                                 *)
ListsSound ==
    \A iv \in Intervals : \A i \in 1..Len(cyc[iv]) :
        /\ snap[cyc[iv][i]].interval = iv
        /\ snap[cyc[iv][i]].status # "deleted"

(* A step that is a call of purge, on sound lists, which returned *)
PurgeStep == ListsSound /\ last'.op = "purge" /\ lk' = lk /\ exc' = "none"

(* The number of complete snapshots among the first i of a list *)
CompleteUpTo(list, i) ==
    Cardinality({j \in 1..i : snap[list[j]].status = "complete"})

(* The index just past the n-th complete snapshot of a list, counted from  *)
(* the newest; the whole list if it holds fewer (n >= 1)                   *)
C18_Cutoff(list, n) ==
    IF \E i \in 1..Len(list) : CompleteUpTo(list, i) >= n
    THEN CHOOSE i \in 1..Len(list) :
             /\ CompleteUpTo(list, i) >= n
             /\ \A j \in 1..(i - 1) : CompleteUpTo(list, j) < n
    ELSE Len(list)

C19_SurplusDeleted ==
    [][(PurgeStep /\ overflow[last'.arg].to = "none") =>
          LET old == cyc[last'.arg]
              new == cyc'[last'.arg]
          IN  \A j \in (Len(new) + 1)..Len(old) :
                  /\ snap'[old[j]].status = "deleted"
                  /\ dir'[NameOf(World, old[j])] = "absent"
                  /\ sf'[NameOf(World, old[j])] = 0
                  /\ NameOf(World, old[j]) \notin lk'
                  /\ \A o \in Owners : <<NameOf(World, old[j]), o>> \notin mk'
    ]_vars

(* purge(1) of an hourly cycle without overflow returned after deleting    *)
(* two snapshots                                                           *)
C19_Witness ==
    /\ PurgeReturned /\ last.arg = "hourly" /\ last.num = 1
    /\ overflow["hourly"].to = "none"
    /\ Len(cyc["hourly"]) = 1
    /\ \E s, t \in SnapIds :
          /\ s # t
          /\ snap[s].status = "deleted" /\ snap[t].status = "deleted"
          /\ dir[NameOf(World, s)] = "absent" /\ dir[NameOf(World, t)] = "absent"

----------------------------------------------------------------------------
(* SpecFeed: feed() of the daily or weekly cycle is called with a suffix   *)
(* of the hourly cycle's list, over a tree of hourly snapshots; another    *)
(* process may hold the lock of a snapshot.                                *)

InitFeed ==
    /\ InitFrom(Trees)
    /\ \A iv \in Intervals : overflow[iv].to = "none"

(* cycle.feed(hourly.snapshots[k:]) *)
FeedAct ==
    \E dst \in FedCycles, k \in 0..MaxSnapshots :
        /\ last.op = "init"
        /\ k <= Len(cyc["hourly"])
        /\ Commit(feed(World, dst,
                       SubSeq(cyc["hourly"], k + 1, Len(cyc["hourly"]))))
        /\ last' = [NoLast EXCEPT !.op = "feed", !.arg = dst, !.num = k]
        /\ UNCHANGED <<pc, res, eng>>

NextFeed == FeedAct \/ OtherLocksAct \/ OtherUnlocksAct

SpecFeed == InitFeed /\ [][NextFeed]_vars

(* The candidates of the feed() that was called *)
Candidates ==
    {cyc["hourly"][i] : i \in (last.num + 1)..Len(cyc["hourly"])}

InList(iv, s) == \E i \in 1..Len(cyc[iv]) : cyc[iv][i] = s

(* C20: when feed(candidates) returns, every candidate is either promoted  *)
(* (in the destination cycle's list, its interval the destination's, its   *)
(* directory present under the new name) or deleted (not in the list,      *)
(* status deleted, directory removed), never both; no candidate is left on *)
(* disk under the name of the cycle it came from, and no lock directory of *)
(* a candidate remains.                                                    *)
C20_FeedPartitions ==
    (last.op = "feed" /\ exc = "none") =>
        \A s \in Candidates :
            LET oldname == <<"hourly", stimestamp(snap[s].timestamp)>>
                newname == <<last.arg, stimestamp(snap[s].timestamp)>>
                promoted == /\ InList(last.arg, s)
                            /\ snap[s].interval = last.arg
                            /\ dir[newname] # "absent"
                            /\ snap[s].status # "deleted"
                deleted == /\ ~InList(last.arg, s)
                           /\ snap[s].status = "deleted"
                           /\ dir[newname] = "absent"
            IN  /\ promoted \/ deleted
                /\ ~(promoted /\ deleted)
                /\ dir[oldname] = "absent" /\ sf[oldname] = 0
                /\ oldname \notin lk /\ newname \notin lk
                /\ \A o \in Owners : /\ <<oldname, o>> \notin mk
                                     /\ <<newname, o>> \notin mk

(* feed() returned after promoting one candidate and deleting another *)
C20_Witness ==
    /\ last.op = "feed" /\ exc = "none"
    /\ \E s, t \in Candidates :
          /\ InList(last.arg, s) /\ snap[s].interval = last.arg
          /\ dir[<<last.arg, stimestamp(snap[s].timestamp)>>] = "full"
          /\ snap[t].status = "deleted"

----------------------------------------------------------------------------
(* SpecWait: rsyncWrapper.wait(timeout) (engine.py) is called while the    *)
(* subprocess and the two PipeLogger threads run and end on their own.     *)

MaxWaits == 3
Loggers == 1..2                      \* loggers.values(): stdout, stderr

(* No tree, no Snapshot and no Cycle take part *)
NoTree ==
    /\ EmptyFs
    /\ snap = [s \in SnapIds |-> Unborn]
    /\ cyc = [i \in Intervals |-> <<>>]
    /\ overflow = [i \in Intervals |-> [to |-> "none", keep |-> 0]]
    /\ dry = FALSE /\ last = NoLast
    /\ pc = [o \in Owners |-> "idle"]
    /\ res = [o \in Owners |-> NoResult]

TreeFrame == UNCHANGED <<dir, sf, lk, mk, snap, cyc, overflow, dry, last, pc, res>>

(* raise subprocess.TimeoutExpired: the class is raised without arguments, *)
(* and its constructor requires cmd and timeout                            *)
RaisedWhenAlive == "TypeError"

InitWait ==
    /\ NoTree
    /\ exc = "none"
    /\ eng = [pc |-> "idle", n |-> 0, timeout |-> "none", i |-> 0,
              process |-> "running", alive |-> [l \in Loggers |-> TRUE],
              joined |-> 0, out |-> "none", stage |-> "none"]

(* execute() has started the subprocess and its loggers: they end on their *)
(* own, in any order                                                       *)
ProcessExitsAct ==
    /\ eng.process = "running"
    /\ eng' = [eng EXCEPT !.process = "exited"]
    /\ UNCHANGED exc /\ TreeFrame

LoggerEndsAct ==
    \E l \in Loggers :
        /\ eng.alive[l]
        /\ eng' = [eng EXCEPT !.alive[l] = FALSE]
        /\ UNCHANGED exc /\ TreeFrame

(* wait(timeout) is called *)
WaitCallAct ==
    \E t \in {"none", "some"} :
        /\ eng.pc = "idle" /\ eng.n < MaxWaits
        /\ eng' = [eng EXCEPT !.pc = "process_wait", !.n = @ + 1, !.timeout = t,
                              !.i = 0, !.joined = 0, !.out = "none",
                              !.stage = "none"]
        /\ exc' = "none" /\ TreeFrame

(* self.process.wait(timeout=timeout): returns once the subprocess has     *)
(* exited; with a timeout, raises TimeoutExpired while it still runs       *)
ProcessWaitAct ==
    /\ eng.pc = "process_wait"
    /\ IF eng.process = "exited"
       THEN /\ eng' = [eng EXCEPT !.pc = "join", !.i = 1]
            /\ exc' = exc
       ELSE /\ eng.timeout = "some"
            /\ eng' = [eng EXCEPT !.pc = "idle", !.out = "raised",
                                  !.stage = "process"]
            /\ exc' = "TimeoutExpired"
    /\ TreeFrame

(* logger.join(timeout=timeout): returns when the thread has ended or, if  *)
(* a timeout was given, when the slice is over                             *)
JoinAct ==
    /\ eng.pc = "join"
    /\ ~eng.alive[eng.i] \/ eng.timeout = "some"
    /\ eng' = [eng EXCEPT !.pc = "is_alive", !.joined = @ + 1]
    /\ UNCHANGED exc /\ TreeFrame

(* if logger.is_alive(): raise subprocess.TimeoutExpired *)
IsAliveAct ==
    /\ eng.pc = "is_alive"
    /\ IF eng.alive[eng.i]
       THEN /\ eng' = [eng EXCEPT !.pc = "idle", !.out = "raised",
                                  !.stage = "is_alive"]
            /\ exc' = RaisedWhenAlive
       ELSE /\ IF eng.i = 2
               THEN eng' = [eng EXCEPT !.pc = "idle", !.out = "returned"]
               ELSE eng' = [eng EXCEPT !.pc = "join", !.i = 2]
            /\ exc' = exc
    /\ TreeFrame

NextWait ==
    \/ ProcessExitsAct \/ LoggerEndsAct
    \/ WaitCallAct \/ ProcessWaitAct \/ JoinAct \/ IsAliveAct

SpecWait == InitWait /\ [][NextWait]_vars

(* C21: wait(timeout) returns normally only if the subprocess has exited   *)
(* and both readers have ended; if the subprocess does not exit within the *)
(* timeout it raises TimeoutExpired without joining a reader; if a reader  *)
(* is still alive after its slice it raises TimeoutExpired.                *)
C21_WaitQuiescence ==
    /\ eng.out = "returned" =>
          /\ eng.process = "exited"
          /\ \A l \in Loggers : ~eng.alive[l]
    /\ (eng.out = "raised" /\ eng.stage = "process") =>
          /\ exc = "TimeoutExpired" /\ eng.joined = 0
    /\ (eng.out = "raised" /\ eng.stage = "is_alive") =>
          exc = "TimeoutExpired"

----------------------------------------------------------------------------
(* SpecReader: one PipeLogger thread (engine.py) reads the pipe of the     *)
(* files-transferred stream while the subprocess writes lines and closes   *)
(* the pipe, and while the interrupt flag may be set from outside.  A line *)
(* is modelled by the byte size it encodes ("#size#name"), 0 for a line of *)
(* plain text.                                                             *)

MaxLines == 3
MaxSize == 2
MaxThreshold == 2

RECURSIVE SumOf(_)
SumOf(seq) == IF seq = <<>> THEN 0 ELSE Head(seq) + SumOf(Tail(seq))

InitReader ==
    /\ NoTree
    /\ exc = "none"
    /\ \E t \in 0..MaxThreshold :
          eng = [rpc |-> "top", pipe |-> <<>>, closed |-> FALSE, written |-> 0,
                 consumed |-> <<>>, flag |-> "clear", bw_err |-> t]

(* The subprocess writes a line to the pipe, or closes it *)
WriteLineAct ==
    \E size \in 0..MaxSize :
        /\ ~eng.closed /\ eng.written < MaxLines
        /\ eng' = [eng EXCEPT !.pipe = Append(@, size), !.written = @ + 1]
        /\ UNCHANGED exc /\ TreeFrame

ClosePipeAct ==
    /\ ~eng.closed
    /\ eng' = [eng EXCEPT !.closed = TRUE]
    /\ UNCHANGED exc /\ TreeFrame

(* The interrupt flag is set by another thread *)
SetFlagAct ==
    /\ eng.flag = "clear"
    /\ eng' = [eng EXCEPT !.flag = "set"]
    /\ UNCHANGED exc /\ TreeFrame

(* run(): while True: the thread enters the next iteration and calls       *)
(* self.stream.readline()                                                  *)
LoopTopAct ==
    /\ eng.rpc = "top"
    /\ eng' = [eng EXCEPT !.rpc = "readline"]
    /\ UNCHANGED exc /\ TreeFrame

(* readline() returns a line, which goes to self.method, or the empty      *)
(* string at end of stream, and run() returns                              *)
ReadLineAct ==
    /\ eng.rpc = "readline"
    /\ IF eng.pipe # <<>>
       THEN eng' = [eng EXCEPT !.rpc = "top", !.pipe = Tail(@),
                               !.consumed = Append(@, Head(eng.pipe))]
       ELSE /\ eng.closed
            /\ eng' = [eng EXCEPT !.rpc = "returned"]
    /\ UNCHANGED exc /\ TreeFrame

NextReader ==
    \/ WriteLineAct \/ ClosePipeAct \/ SetFlagAct
    \/ LoopTopAct \/ ReadLineAct

SpecReader == InitReader /\ [][NextReader]_vars

(* C22: the interrupt flag, once set, is never cleared; a reader that      *)
(* finds the flag set at the start of a loop iteration returns without     *)
(* consuming a further line, so that lines written later stay in the pipe. *)
C22_InterruptStopsReader ==
    [][/\ eng.flag # "clear" => eng'.flag # "clear"
       /\ (eng.rpc = "top" /\ eng.flag # "clear" /\ eng'.rpc # eng.rpc) =>
             /\ eng'.rpc = "returned"
             /\ eng'.consumed = eng.consumed /\ eng'.pipe = eng.pipe
       /\ (eng.flag # "clear" /\ eng.rpc = "returned") =>
             eng'.consumed = eng.consumed
    ]_vars

(* C29: with a non-zero error threshold the reader sets the interrupt flag *)
(* exactly when the sum of the sizes it has consumed first reaches the     *)
(* threshold, and then returns without consuming the next line; with a     *)
(* zero threshold, or while the sum stays below it, it never sets the      *)
(* flag.                                                                   *)
C29_ThresholdProtocol ==
    IF eng.bw_err > 0 /\ SumOf(eng.consumed) >= eng.bw_err
    THEN /\ eng.flag = "set by reader"
         /\ eng.rpc = "returned"
         /\ SumOf(SubSeq(eng.consumed, 1, Len(eng.consumed) - 1)) < eng.bw_err
    ELSE eng.flag # "set by reader"


----------------------------------------------------------------------------
(* Claims on the end of create_new_snapshot, checked under SpecCreate *)

(* The step in which create_new_snapshot returns normally: the transfer    *)
(* exited with code 0 and the kill switch was not acted on                 *)
C23_Returns ==
    /\ eng.pc = "polling"
    /\ eng'.pc = "done" /\ eng'.out = "returned"
    /\ eng'.rc = 0 /\ ~eng'.killed

(* C23: when create_new_snapshot returns normally the snapshot at index 0   *)
(* is complete with a timestamp, its directory <interval>.<timestamp>       *)
(* exists, no wip directory remains, and neither a status file nor a lock   *)
(* directory remains for it or for the link-dest snapshot.                  *)
C23_SuccessPostcondition ==
    [][C23_Returns =>
          /\ cyc'[TheCycle][1] = eng.s
          /\ snap'[eng.s].status = "complete"
          /\ snap'[eng.s].timestamp \in Times
          /\ dir'[<<TheCycle, snap'[eng.s].timestamp>>] # "absent"
          /\ dir'[WipName] = "absent"
          /\ sf'[<<TheCycle, snap'[eng.s].timestamp>>] = 0
          /\ <<TheCycle, snap'[eng.s].timestamp>> \notin lk'
          /\ eng.linkdest # 0 =>
                /\ sf'[<<TheCycle, snap'[eng.linkdest].timestamp>>] = 0
                /\ <<TheCycle, snap'[eng.linkdest].timestamp>> \notin lk'
    ]_vars

(* A call that hard-linked against an older snapshot has returned normally *)
C23_Witness ==
    /\ eng.pc = "done" /\ eng.out = "returned" /\ eng.linkdest # 0
    /\ eng.branch = "created"
    /\ snap[eng.s].status = "complete" /\ snap[eng.s].timestamp \in Times
    /\ <<TheCycle, snap[eng.linkdest].timestamp>> \notin lk


----------------------------------------------------------------------------
(* SpecDry: a dry run.  if_not_dry_run.dry_run is True while               *)
(* Cycle("hourly") is built over a tree, the methods of a Snapshot object  *)
(* are called, and then snapshots are made and the cycle is purged.        *)

MaxDrySnapshots == 1     \* directories in the tree a dry run starts from

InitDry ==
    \E f \in Trees :
        \E w \in {NewCycle(wt, TheCycle) :
                    wt \in {[TreeWorld(f, 0, 0, 0) EXCEPT !.dry = TRUE]}} :
            /\ Cardinality({st \in Stamps : f[st] # "none"}) <= MaxDrySnapshots
            /\ dir = w.dir /\ sf = w.sf /\ lk = w.lk /\ mk = w.mk
            /\ snap = w.snap /\ cyc = w.cyc /\ overflow = w.overflow
            /\ dry = w.dry /\ exc = w.exc
            /\ last = NoLast
            /\ pc = [o \in Owners |-> "idle"]
            /\ res = [o \in Owners |-> NoResult]
            /\ eng = NoEngine

(* The Snapshot object whose methods are called: the first one made *)
Born == {s \in {TheSnap} : snap[s].status # "unborn"}

DryMkdirAct ==
    \E s \in Born :
        /\ eng.pc = "idle"
        /\ Commit(mkdir(World, s))
        /\ last' = Seen("mkdir", s, "", 0)
        /\ UNCHANGED <<pc, res, eng>>

DrySetStatusAct ==
    \E s \in Born, new \in Status :
        /\ eng.pc = "idle"
        /\ Commit(SetStatus(World, s, new))
        /\ last' = Seen("status", s, new, 0)
        /\ UNCHANGED <<pc, res, eng>>

DryDeleteAct ==
    \E s \in Born :
        /\ eng.pc = "idle"
        /\ Commit(delete(World, s))
        /\ last' = Seen("delete", s, "", 0)
        /\ UNCHANGED <<pc, res, eng>>

DrySetTimestampAct ==
    \E s \in Born, v \in SnapTimes :
        /\ eng.pc = "idle"
        /\ Commit(SetTimestamp(World, s, v))
        /\ last' = Seen("timestamp", s, "", v)
        /\ UNCHANGED <<pc, res, eng>>

DrySetIntervalAct ==
    \E s \in Born, v \in SnapIntervals :
        /\ eng.pc = "idle"
        /\ Commit(SetInterval(World, s, v))
        /\ last' = Seen("interval", s, v, 0)
        /\ UNCHANGED <<pc, res, eng>>

DryPurgeAct ==
    /\ eng.pc # "polling"
    /\ PurgeAct

NextDry ==
    \/ DryMkdirAct \/ DrySetStatusAct \/ DryDeleteAct
    \/ DrySetTimestampAct \/ DrySetIntervalAct
    \/ DryPurgeAct
    \/ CreateBeginAct \/ PollTimeoutAct \/ PollKillAct \/ PollReturnAct

SpecDry == InitDry /\ [][NextDry]_vars

(* The snapshot directories and the status files are as they were *)
DryKeepsDirectories == [][dir' = dir /\ sf' = sf]_vars

(* The in-memory fields follow the assignments of a dry run as they do     *)
(* outside one                                                             *)
DryUpdatesMemory ==
    [][/\ (last'.op = "timestamp" /\ last' # last /\ exc' = "none") =>
              snap'[last'.s].timestamp = last'.num
       /\ (last'.op = "interval" /\ last' # last /\ exc' = "none") =>
              snap'[last'.s].interval = last'.arg
       /\ (last'.op = "status" /\ last' # last /\ exc' = "none") =>
              snap'[last'.s].status =
                  SetterOutcome(World, last'.s, last'.preStatus, last'.arg)
    ]_vars

(* C24: in a dry run no step of the Snapshot operations, of                *)
(* create_new_snapshot or of purge creates, renames or removes an entry of *)
(* the destination tree: snapshot directories, status files and lock       *)
(* directories are as they were before the step.                           *)
C24_DryRunLeavesTree ==
    [][dry => /\ dir' = dir /\ sf' = sf
              /\ lk' = lk /\ mk' = mk]_vars

(* A dry run has returned from create_new_snapshot and a lock directory it *)
(* made is still in the tree                                               *)
DryLeavesLock ==
    /\ dry /\ eng.pc = "done" /\ eng.launched /\ lk # {}


----------------------------------------------------------------------------
(* Claims on renaming, checked under SpecSnap *)

(* The step assigns a timestamp or an interval other than the current one  *)
(* to the snapshot, which holds its lock and has a directory and a status  *)
(* file                                                                    *)
C25_Renames ==
    /\ \/ last'.op = "timestamp" /\ last'.num # snap[TheSnap].timestamp
          /\ snap'[TheSnap].timestamp = last'.num
       \/ last'.op = "interval" /\ last'.arg # snap[TheSnap].interval
          /\ snap'[TheSnap].interval = last'.arg
    /\ SnapHolds(World, TheSnap)
    /\ sf[CurName] # 0
    /\ dir[CurName] # "absent"

(* C25: after a new timestamp or interval is assigned to a snapshot that   *)
(* holds its lock and has a status file, the lock directory, the status    *)
(* file and the snapshot directory are all under the new name and none is  *)
(* under the old one; the caller still holds the lock and the status is    *)
(* what it was.                                                            *)
C25_RenameKeepsTogether ==
    [][C25_Renames =>
          /\ exc' = "none"
          /\ CurName' # CurName
          /\ CurName' \in lk' /\ <<CurName', TheSnap>> \in mk'
          /\ sf'[CurName'] = sf[CurName]
          /\ dir'[CurName'] = dir[CurName]
          /\ CurName \notin lk' /\ \A o \in Owners : <<CurName, o>> \notin mk'
          /\ sf'[CurName] = 0
          /\ dir'[CurName] = "absent"
          /\ snap'[TheSnap].status = snap[TheSnap].status
    ]_vars

(* A locked, syncing snapshot has been moved from the wip name to a        *)
(* timestamp                                                               *)
C25_Witness ==
    /\ last.op = "timestamp" /\ last.preHeld /\ last.preSf = Value("syncing")
    /\ last.preStatus = "syncing"
    /\ snap[TheSnap].timestamp = last.num
    /\ SnapHolds(World, TheSnap)
    /\ sf[CurName] = Value("syncing") /\ dir[CurName] # "absent"
    /\ sf[<<"hourly", WipStamp>>] = 0 /\ dir[<<"hourly", WipStamp>>] = "absent"
    /\ <<"hourly", WipStamp>> \notin lk


----------------------------------------------------------------------------
(* SpecDelete: Snapshot.delete() on one Snapshot object, one statement or  *)
(* one stage of shutil.rmtree at a time.                                   *)

MaxDeletes == 2          \* calls of delete() in one run

(* shutil.rmtree has emptied the directory and not yet removed it *)
FsRmtreeContents(w, n) ==
    IF w.dry THEN w
    ELSE IF w.dir[n] = "absent" THEN Raise(w, "FileNotFoundError")
    ELSE [w EXCEPT !.dir[n] = "empty"]

(* Mutant of DeleteThen: the tree is removed before the status is written *)
DeleteThenRemovesFirst(at) ==
    CASE at = "check" -> "rmtree"
      [] at = "rmtree" -> "rmdir"
      [] at = "rmdir" -> "set_deleting"
      [] at = "set_deleting" -> "set_deleted"
      [] OTHER -> "done"

(* The statement of delete() that follows the one at `at` *)
DeleteThen(at) ==
    CASE at = "check" -> "set_deleting"
      [] at = "set_deleting" -> "rmtree"
      [] at = "rmtree" -> "rmdir"
      [] at = "rmdir" -> "set_deleted"
      [] OTHER -> "done"

InitDelete ==
    \E ts \in SnapTimes \cup {None}, d \in {"absent", "empty", "full"},
       code \in {0} \cup {Value(st) : st \in Dirty}, held \in BOOLEAN :
      LET n == <<"hourly", stimestamp(ts)>>
          w0 == [dir |-> [x \in Names |-> IF x = n THEN d ELSE "absent"],
                 sf |-> [x \in Names |-> IF x = n THEN code ELSE 0],
                 lk |-> {}, mk |-> {},
                 snap |-> [s \in SnapIds |-> Unborn],
                 cyc |-> [i \in Intervals |-> <<>>],
                 overflow |-> [i \in Intervals |-> [to |-> "none", keep |-> 0]],
                 dry |-> FALSE, exc |-> "none"]
          w1 == NewSnapshot(w0, TheSnap, "hourly", ts)
          w2 == IF held THEN SnapAcquire(w1, TheSnap) ELSE w1
      IN  /\ Ok(w1)
          /\ dir = w2.dir /\ sf = w2.sf /\ lk = w2.lk /\ mk = w2.mk
          /\ snap = w2.snap /\ cyc = w2.cyc /\ overflow = w2.overflow
          /\ dry = w2.dry /\ exc = "none"
          /\ last = NoLast
          /\ pc = [o \in Owners |-> "idle"]
          /\ res = [o \in Owners |-> NoResult]
          /\ eng = [at |-> "idle", n |-> 0, pre |-> "none"]

DeleteFrame == UNCHANGED <<last, pc, res>>

(* One statement of delete() has run: move on, or leave on an exception *)
DeleteGoes(w) ==
    /\ Commit(w)
    /\ eng' = [eng EXCEPT !.at = IF Ok(w) THEN DeleteThen(eng.at) ELSE "done"]

(* delete() is called *)
DeleteCallAct ==
    /\ eng.at \in {"idle", "done"}
    /\ eng.n < MaxDeletes
    /\ Commit(Raise(World, "none"))
    /\ eng' = [at |-> "check", n |-> eng.n + 1, pre |-> snap[TheSnap].status]
    /\ DeleteFrame

(* if self.status is Status.void: raise RuntimeError *)
DeleteCheckAct ==
    /\ eng.at = "check"
    /\ DeleteGoes(IF StatusFileCheck(World, TheSnap) # "none"
                  THEN Raise(World, StatusFileCheck(World, TheSnap))
                  ELSE IF snap[TheSnap].status = "void"
                  THEN Raise(World, "RuntimeError")
                  ELSE World)
    /\ DeleteFrame

(* self.status = Status.deleting *)
DeleteSetDeletingAct ==
    /\ eng.at = "set_deleting"
    /\ DeleteGoes(SetStatus(World, TheSnap, "deleting"))
    /\ DeleteFrame

(* shutil.rmtree(self.path): the content of the directory is removed *)
DeleteRmtreeAct ==
    /\ eng.at = "rmtree"
    /\ DeleteGoes(FsRmtreeContents(World, path(World, TheSnap)))
    /\ DeleteFrame

(* shutil.rmtree(self.path): the directory itself is removed *)
DeleteRmdirAct ==
    /\ eng.at = "rmdir"
    /\ DeleteGoes(FsRmtree(World, path(World, TheSnap)))
    /\ DeleteFrame

(* self.status = Status.deleted *)
DeleteSetDeletedAct ==
    /\ eng.at = "set_deleted"
    /\ DeleteGoes(SetStatus(World, TheSnap, "deleted"))
    /\ DeleteFrame

NextDelete ==
    \/ DeleteCallAct \/ DeleteCheckAct \/ DeleteSetDeletingAct
    \/ DeleteRmtreeAct \/ DeleteRmdirAct \/ DeleteSetDeletedAct

SpecDelete == InitDelete /\ [][NextDelete]_vars

(* The statuses from which the claim lets delete() proceed *)
Deletable == {"blank", "syncing", "flagged", "complete", "deleting"}

(* C26: delete() on a void snapshot raises RuntimeError and changes        *)
(* nothing.  On a blank, syncing, flagged, complete or deleting snapshot   *)
(* every step that removes something of the directory is taken with the    *)
(* status file saying deleting, the status file is removed only when the   *)
(* directory is gone, and the call ends with status deleted; so while the  *)
(* call is past its status assignment and the directory exists, the status *)
(* file says deleting.                                                     *)
C26_DeleteOrdering ==
    [][/\ (eng.at = "check" /\ eng.pre = "void") =>
              /\ eng'.at = "done" /\ exc' = "RuntimeError"
              /\ UNCHANGED <<dir, sf, lk, mk, snap>>
       /\ (eng.pre \in Deletable /\ dir'[CurName] # dir[CurName]) =>
              /\ sf[CurName] = Value("deleting")
              /\ sf'[CurName] = Value("deleting")
       /\ (eng.pre \in Deletable /\ sf[CurName] # 0 /\ sf'[CurName] = 0) =>
              dir[CurName] = "absent"
       /\ (eng.pre \in Deletable /\ eng'.at \in {"rmtree", "rmdir", "set_deleted"}
             /\ dir'[CurName] # "absent") =>
              sf'[CurName] = Value("deleting")
       /\ (eng.pre \in Deletable /\ eng.at # "done" /\ eng'.at = "done") =>
              /\ exc' = "none"
              /\ snap'[TheSnap].status = "deleted"
              /\ dir'[CurName] = "absent" /\ sf'[CurName] = 0
    ]_vars

(* delete() has emptied the directory of a complete snapshot and not yet   *)
(* removed it                                                              *)
C26_Witness ==
    /\ eng.at = "rmdir" /\ eng.pre = "complete"
    /\ dir[CurName] = "empty" /\ sf[CurName] = Value("deleting")


----------------------------------------------------------------------------
(* Claims on the link-dest, checked under SpecCreate *)

(* A call of create_new_snapshot that resumes: the newest snapshot of the  *)
(* cycle is syncing, and the transfer is launched                          *)
C27_Resume ==
    /\ eng'.n = eng.n + 1
    /\ Len(cyc[TheCycle]) > 0
    /\ snap[cyc[TheCycle][1]].status = "syncing"
    /\ eng'.launched

(* The cycle holds a complete snapshot whose lock nobody holds *)
HasCleanUnlocked ==
    \E i \in 1..Len(cyc[TheCycle]) :
        /\ snap[cyc[TheCycle][i]].status = "complete"
        /\ lockfile(World, cyc[TheCycle][i]) \notin lk

(* C27 as stated: when create_new_snapshot resumes a syncing snapshot the  *)
(* transfer is invoked without --link-dest, even if the cycle holds a      *)
(* complete, unlocked snapshot.                                            *)
C27_ResumeWithoutLinkdest ==
    [][C27_Resume => eng'.linkdest = 0]_vars

(* C27 amended: when create_new_snapshot resumes a syncing snapshot the    *)
(* transfer is invoked without --link-dest exactly when the cycle holds no *)
(* complete, unlocked snapshot; otherwise a complete snapshot that was     *)
(* unlocked is passed as --link-dest.                                      *)
C27_ResumeLinksWhenItCan ==
    [][C27_Resume =>
          /\ eng'.branch = "resumed"
          /\ (eng'.linkdest = 0) <=> ~HasCleanUnlocked
          /\ eng'.linkdest # 0 =>
                /\ snap[eng'.linkdest].status = "complete"
                /\ lockfile(World, eng'.linkdest) \notin lk
    ]_vars

(* A resumed transfer runs with a link-dest *)
C27_Witness ==
    /\ eng.pc = "polling" /\ eng.branch = "resumed" /\ eng.launched
    /\ snap[eng.s].status = "syncing"
    /\ eng.linkdest # 0 /\ snap[eng.linkdest].status = "complete"


----------------------------------------------------------------------------
(* SpecLink: SpecCreate with the keyboard interrupt.  KeyboardInterrupt is *)
(* raised in the caller while it polls the transfer.                       *)

(* except KeyboardInterrupt: ...; raise; then the finally clause and the   *)
(* scope exit                                                              *)
Interrupt(w, s, ld) ==
    SnapExit(FinallyRelease(Raise(w, "KeyboardInterrupt"), ld), s)

(* KeyboardInterrupt arrives in wait(0.1).  engine.process.terminate()     *)
(* either raises OSError, which is passed over, or is followed by          *)
(* engine.wait().                                                          *)
PollInterruptAct ==
    \E oserror \in BOOLEAN :
        /\ eng.pc = "polling"
        /\ \E w \in {Interrupt(World, eng.s, eng.linkdest)} :
            /\ Commit(w)
            /\ eng' = [eng EXCEPT !.pc = "done", !.out = w.exc,
                                  !.terminated = IF oserror THEN "OSError"
                                                 ELSE "asked",
                                  !.waited = ~oserror,
                                  !.pipes = close_pipes(@)]
        /\ UNCHANGED <<last, pc, res>>

NextLink == NextCreate \/ PollInterruptAct

MaxLinkTimes == 2        \* instants borne by the directories of the tree

LinkTimes == {AllTimes[i] : i \in 1..MaxLinkTimes}

InitLink ==
    \E f \in TreesOver(LinkTimes) :
        \E w \in {NewCycle(wt, TheCycle) : wt \in {TreeWorld(f, 0, 0, 0)}} :
            /\ Cardinality({st \in Stamps : f[st] # "none"}) < MaxSnapshots
            /\ dir = w.dir /\ sf = w.sf /\ lk = w.lk /\ mk = w.mk
            /\ snap = w.snap /\ cyc = w.cyc /\ overflow = w.overflow
            /\ dry = w.dry /\ exc = w.exc
            /\ last = NoLast
            /\ pc = [o \in Owners |-> "idle"]
            /\ res = [o \in Owners |-> NoResult]
            /\ eng = NoEngine

SpecLink == InitLink /\ [][NextLink]_vars


(* A call of create_new_snapshot launches the transfer with a link-dest *)
C28_Selects ==
    /\ eng'.n = eng.n + 1
    /\ eng'.launched /\ eng'.linkdest # 0

(* The list of the cycle is in the order of construction: newest first,    *)
(* the wip snapshot before the timestamped ones                            *)
NewestFirst ==
    \A i, j \in 1..Len(cyc[TheCycle]) :
        i < j => /\ snap[cyc[TheCycle][j]].timestamp # None
                 /\ snap[cyc[TheCycle][i]].timestamp # None =>
                       snap[cyc[TheCycle][i]].timestamp >
                           snap[cyc[TheCycle][j]].timestamp

(* C28: a link-dest passed to the transfer is a snapshot of the cycle that *)
(* was complete and unlocked when it was selected and is the newest such   *)
(* snapshot; it is not the snapshot being written and never dirty; the     *)
(* caller holds its lock while the transfer runs, and when the call ends,  *)
(* by success, transfer error, kill switch or keyboard interrupt, the lock *)
(* is released.                                                            *)
C28_LinkdestSafety ==
    [][/\ C28_Selects =>
            /\ \E i \in 1..Len(cyc[TheCycle]) : cyc[TheCycle][i] = eng'.linkdest
            /\ snap[eng'.linkdest].status = "complete"
            /\ lockfile(World, eng'.linkdest) \notin lk
            /\ eng'.linkdest # eng'.s
            /\ NewestFirst =>
                  \A i \in 1..Len(cyc[TheCycle]) :
                      (/\ snap[cyc[TheCycle][i]].status = "complete"
                       /\ lockfile(World, cyc[TheCycle][i]) \notin lk) =>
                          snap[cyc[TheCycle][i]].timestamp <=
                              snap[eng'.linkdest].timestamp
       /\ (eng'.pc = "polling" /\ eng'.linkdest # 0) =>
            /\ snap'[eng'.linkdest].status = "complete"
            /\ sf'[lockfile(World, eng'.linkdest)] = 0
            /\ lockfile(World, eng'.linkdest) \in lk'
            /\ <<lockfile(World, eng'.linkdest), eng'.linkdest>> \in mk'
       /\ (eng.pc = "polling" /\ eng'.pc = "done" /\ eng.linkdest # 0) =>
            /\ lockfile(World, eng.linkdest) \notin lk'
            /\ \A o \in Owners : <<lockfile(World, eng.linkdest), o>> \notin mk'
    ]_vars

(* A transfer that ran with a link-dest was ended by a keyboard interrupt  *)
(* and the lock of the link-dest is free again                             *)
C28_Witness ==
    /\ eng.pc = "done" /\ eng.out = "KeyboardInterrupt" /\ eng.linkdest # 0
    /\ lockfile(World, eng.linkdest) \notin lk

(* The newest complete snapshot was locked by another process and an older *)
(* one was taken as link-dest                                              *)
C28_SkipsLocked ==
    /\ eng.pc = "polling" /\ eng.linkdest # 0
    /\ \E s \in SnapIds :
          /\ snap[s].status = "complete"
          /\ snap[s].timestamp > snap[eng.linkdest].timestamp
          /\ <<lockfile(World, s), Foreign>> \in mk


----------------------------------------------------------------------------
(* Claims on the ways out of the transfer phase, checked under SpecLink *)

(* The step in which a keyboard interrupt ends the call *)
C30_Interrupted ==
    /\ eng.pc = "polling"
    /\ eng'.pc = "done" /\ eng'.terminated # "no"

(* On every way out of create_new_snapshot once the try block of the       *)
(* transfer is entered, close_pipes() has been called; a keyboard          *)
(* interrupt leaves the status of the snapshot as it was, not complete     *)
C30_ClosedOnEveryPath ==
    /\ (eng.pc = "polling" /\ eng'.pc = "done") => eng'.pipes = "closed"
    /\ (eng'.n = eng.n + 1 /\ eng'.pc = "done" /\ eng'.linkdest # 0) =>
          eng'.pipes = "closed"
    /\ eng'.pc = "polling" => eng'.pipes = "open"
    /\ C30_Interrupted =>
          /\ eng'.out = "KeyboardInterrupt"
          /\ snap'[eng.s].status = snap[eng.s].status
          /\ snap'[eng.s].status \in {"syncing", "flagged"}
          /\ snap'[eng.s].timestamp = None

----------------------------------------------------------------------------
(* Claims on the choice feed makes, checked under SpecFeed *)

(* The timestamps a greedy choice takes from the set T after the instant   *)
(* prev: the oldest one at least d after prev, then on from that one       *)
RECURSIVE GreedyAfter(_, _, _)
GreedyAfter(T, prev, d) ==
    LET ok == {t \in T : t >= prev + d}
        first == CHOOSE t \in ok : \A u \in ok : t <= u
    IN  IF ok = {} THEN {} ELSE {first} \cup GreedyAfter(T, first, d)

(* The chain of the claim: the oldest of T, then repeatedly the oldest     *)
(* remaining one at least d after the last one taken                       *)
GreedyChain(T, d) ==
    IF T = {} THEN {}
    ELSE LET oldest == CHOOSE t \in T : \A u \in T : t <= u
         IN  {oldest} \cup GreedyAfter(T, oldest, d)

(* feed(candidates) is called on an empty cycle with candidates that are   *)
(* all complete, and returns                                               *)
C31_Fed ==
    /\ last.op = "init" /\ last'.op = "feed" /\ exc' = "none"
    /\ cyc[last'.arg] = <<>>
    /\ \A i \in (last'.num + 1)..Len(cyc["hourly"]) :
          /\ snap[cyc["hourly"][i]].status = "complete"
          /\ snap[cyc["hourly"][i]].timestamp # None

(* C31: feed on an empty cycle with spacing d and complete candidates of   *)
(* distinct timestamps promotes exactly the greedy chain from the oldest   *)
(* (the oldest candidate, then repeatedly the oldest remaining one at      *)
(* least d after the last promoted) and deletes every other candidate.     *)
C31_FeedGreedyFromOldest ==
    [][C31_Fed =>
          LET cands == {cyc["hourly"][i] :
                           i \in (last'.num + 1)..Len(cyc["hourly"])}
              chain == GreedyChain({snap[s].timestamp : s \in cands},
                                   TIMEDELTA(last'.arg))
              dst == cyc'[last'.arg]
          IN  /\ {dst[i] : i \in 1..Len(dst)}
                    = {s \in cands : snap[s].timestamp \in chain}
              /\ \A s \in cands :
                    IF snap[s].timestamp \in chain
                    THEN /\ snap'[s].status = "complete"
                         /\ snap'[s].interval = last'.arg
                         /\ dir'[<<last'.arg, snap[s].timestamp>>] # "absent"
                    ELSE /\ snap'[s].status = "deleted"
                         /\ dir'[<<"hourly", snap[s].timestamp>>] = "absent"
                         /\ dir'[<<last'.arg, snap[s].timestamp>>] = "absent"
    ]_vars

(* The daily cycle was fed three complete snapshots: two made a day apart  *)
(* were promoted, the one in between was deleted                           *)
C31_Witness ==
    /\ last.op = "feed" /\ last.arg = "daily" /\ exc = "none"
    /\ Len(cyc["daily"]) = 2
    /\ snap[cyc["daily"][1]].timestamp - snap[cyc["daily"][2]].timestamp >= DAY
    /\ \E s \in SnapIds : /\ snap[s].status = "deleted"
                          /\ snap[s].timestamp > snap[cyc["daily"][2]].timestamp
                          /\ snap[s].timestamp < snap[cyc["daily"][1]].timestamp

----------------------------------------------------------------------------
(* SpecBreak: SpecLock's owners may also call break_lock() on the lock     *)
(* path, one system call at a time.  eng[o] is the listing that o's        *)
(* os.listdir() returned and that its loop has still to remove.            *)

InitBreak ==
    /\ EmptyFs
    /\ snap = [s \in SnapIds |-> Unborn]
    /\ cyc = [i \in Intervals |-> <<>>]
    /\ overflow = [i \in Intervals |-> [to |-> "none", keep |-> 0]]
    /\ dry = FALSE /\ exc = "none" /\ last = NoLast
    /\ pc = [o \in Owners |-> "idle"]
    /\ res = [o \in Owners |-> NoResult]
    /\ eng = [o \in Owners |-> {}]

BreakFrame == UNCHANGED <<dir, sf, snap, cyc, overflow, dry, exc, last>>

(* break_lock(): if os.access(self.lockfile, os.F_OK) *)
BrkAccess(o) ==
    /\ pc[o] = "idle"
    /\ IF is_locked(World, LockName)
       THEN Step(o, "brk_listdir")
       ELSE pc' = pc
    /\ res' = [res EXCEPT ![o] = [call |-> "break_lock", out |-> "none",
                                  contended |-> FALSE]]
    /\ UNCHANGED <<lk, mk, eng>> /\ BreakFrame

(* break_lock(): os.listdir(self.lockfile) *)
BrkListdir(o) ==
    /\ pc[o] = "brk_listdir"
    /\ IF is_locked(World, LockName)
       THEN /\ eng' = [eng EXCEPT ![o] = {p \in Owners : <<LockName, p>> \in mk}]
            /\ Step(o, "brk_remove") /\ UNCHANGED res
       ELSE /\ Return(o, "FileNotFoundError") /\ UNCHANGED eng
    /\ UNCHANGED <<lk, mk>> /\ BreakFrame

(* break_lock(): os.remove(os.path.join(self.lockfile, name)) *)
BrkRemove(o) ==
    /\ pc[o] = "brk_remove"
    /\ \E p \in eng[o] :
          LET w1 == MarkerRemove(World, LockName, p)
          IN  /\ mk' = w1.mk
              /\ IF Ok(w1)
                 THEN /\ eng' = [eng EXCEPT ![o] = @ \ {p}]
                      /\ UNCHANGED <<pc, res>>
                 ELSE /\ eng' = [eng EXCEPT ![o] = {}]
                      /\ Return(o, w1.exc)
    /\ UNCHANGED lk /\ BreakFrame

(* break_lock(): os.rmdir(self.lockfile) *)
BrkRmdir(o) ==
    /\ pc[o] = "brk_remove" /\ eng[o] = {}
    /\ LET w1 == LockRmdir(World, LockName)
       IN  /\ lk' = w1.lk
           /\ Return(o, IF Ok(w1) THEN "broken" ELSE w1.exc)
    /\ UNCHANGED <<mk, eng>> /\ BreakFrame

NextBreak ==
    \/ NextLock
    \/ \E o \in LockOwners :
          BrkAccess(o) \/ BrkListdir(o) \/ BrkRemove(o) \/ BrkRmdir(o)

SpecBreak == InitBreak /\ [][NextBreak]_vars

(* C32: under every interleaving of the steps of acquire(), release() and  *)
(* break_lock() by several owners on one lock path, at most one owner's    *)
(* marker is in the lock directory, that is, at most one owner satisfies   *)
(* i_am_locking().                                                         *)
C32_SingleHolderWithBreak ==
    Cardinality({o \in LockOwners : i_am_locking(World, LockName, o)}) <= 1

----------------------------------------------------------------------------
(* SpecCrash: a process runs create_new_snapshot on a tree without a wip   *)
(* directory, one filesystem step at a time, and may be killed between any *)
(* two steps.  Later processes break the locks left behind, build the      *)
(* Cycle again and call create_new_snapshot(engine, force=True) with a     *)
(* transfer that exits with 0.                                             *)

MaxCrashTimes == 2
MaxRecoveries == 2
CrashTimes == {AllTimes[i] : i \in 1..MaxCrashTimes}
LastStep == 19

NoRun == [pc |-> "run", k |-> 0, s |-> 0, ld |-> 0, at |-> 0, runs |-> 0,
          ok |-> 0, out |-> "none", same |-> TRUE]

InitCrash ==
    \E f \in TreesOver(CrashTimes) :
        \E w \in {NewCycle(wt, TheCycle) : wt \in {TreeWorld(f, 0, 0, 0)}} :
            /\ f[WipStamp] = "none"
            /\ Cardinality({st \in Stamps : f[st] # "none"}) + 2 <= MaxSnapshots
            /\ dir = w.dir /\ sf = w.sf /\ lk = w.lk /\ mk = w.mk
            /\ snap = w.snap /\ cyc = w.cyc /\ overflow = w.overflow
            /\ dry = w.dry /\ exc = w.exc
            /\ last = NoLast
            /\ pc = [o \in Owners |-> "idle"]
            /\ res = [o \in Owners |-> NoResult]
            /\ eng = NoRun

(* The clock is ahead of every snapshot of the tree *)
Later(w, now) ==
    \A n \in Names : w.dir[n] # "absent" /\ n[2] # WipStamp => now > n[2]

(* rsync writes into the directory of the snapshot *)
Transfer(w, s) == [w EXCEPT !.dir[path(w, s)] = "full"]

(* The k-th filesystem step of create_new_snapshot on its third branch,    *)
(* for the snapshot s, the link-dest ld (0 for None) and the clock now.    *)
CreateStep(k, w, iv, s, ld, now) ==
    CASE k = 1 -> The({LockMkdir([w1 EXCEPT !.cyc[iv] = <<s>> \o @], lockfile(w1, s)) :
                       w1 \in {NewSnapshot(w, s, iv, None)}})
      [] k = 2 -> MarkerCreate(w, lockfile(w, s), s)
      [] k = 3 -> mkdir(w, s)
      [] k = 4 -> SetStatus(w, s, "syncing")
      [] k = 5 -> MarkerRemove(w, lockfile(w, s), s)
      [] k = 6 -> LockRmdir(w, lockfile(w, s))
      [] k = 7 -> LockMkdir(w, lockfile(w, s))
      [] k = 8 -> MarkerCreate(w, lockfile(w, s), s)
      [] k = 9 -> IF ld = 0 THEN w ELSE LockMkdir(w, lockfile(w, ld))
      [] k = 10 -> IF ld = 0 THEN w ELSE MarkerCreate(w, lockfile(w, ld), ld)
      [] k = 11 -> Transfer(w, s)
      [] k = 12 -> IF ld = 0 THEN w ELSE MarkerRemove(w, lockfile(w, ld), ld)
      [] k = 13 -> IF ld = 0 THEN w ELSE LockRmdir(w, lockfile(w, ld))
      [] k = 14 -> SetStatus(w, s, "complete")
      [] k = 15 -> The({IF NameOf(w, s) \in w.lk
                        THEN FsRenameLock(w0, NameOf(w, s), NameOf(w0, s)) ELSE w0 :
                        w0 \in {[w EXCEPT !.snap[s].timestamp = now]}})
      [] k = 16 -> IF w.dir[<<iv, WipStamp>>] # "absent"
                   THEN FsRenameDir(w, <<iv, WipStamp>>, NameOf(w, s)) ELSE w
      [] k = 17 -> IF w.sf[<<iv, WipStamp>>] # 0
                   THEN FsRenameFile(w, <<iv, WipStamp>>, NameOf(w, s)) ELSE w
      [] k = 18 -> MarkerRemove(w, lockfile(w, s), s)
      [] k = 19 -> LockRmdir(w, lockfile(w, s))

(* The first process takes its next step *)
CrashStepAct ==
    \E now \in IF eng.k + 1 = 15 THEN {t \in Times : Later(World, t)} ELSE {eng.at} :
        /\ eng.pc = "run" /\ eng.k < LastStep
        /\ \E s \in {IF eng.k = 0 THEN FreshId(World) ELSE eng.s} :
           \E ld \in {IF eng.k + 1 = 9 THEN get_linkdest(World, TheCycle).s
                      ELSE eng.ld} :
           \E w \in {CreateStep(eng.k + 1, World, TheCycle, s, ld, now)} :
              /\ Commit(w)
              /\ eng' = [eng EXCEPT !.k = @ + 1, !.s = s, !.ld = ld, !.at = now,
                                    !.out = w.exc,
                                    !.pc = IF ~Ok(w) THEN "raised"
                                           ELSE IF eng.k + 1 = LastStep THEN "returned"
                                           ELSE "run"]
        /\ UNCHANGED <<last, pc, res>>

(* The first process is killed: its objects are lost, the tree stays *)
CrashAct ==
    /\ eng.pc = "run" /\ eng.k > 0
    /\ snap' = [s \in SnapIds |-> Unborn]
    /\ cyc' = [i \in Intervals |-> <<>>]
    /\ eng' = [eng EXCEPT !.pc = "crashed"]
    /\ UNCHANGED <<dir, sf, lk, mk, overflow, dry, exc, last, pc, res>>

RECURSIVE BreakStale(_, _)
BreakStale(w, locks) ==
    IF locks = {} THEN w
    ELSE LET n == CHOOSE x \in locks : TRUE
         IN  BreakStale(break_lock(w, n), locks \ {n})

(* A later process: the stale locks are broken, Cycle(dir, "hourly") is    *)
(* built and create_new_snapshot(engine, force=True) runs a transfer that  *)
(* exits with 0.                                                           *)
Recover(w, iv, now) ==
    The({The({IF ~Ok(r.w) THEN r.w
              ELSE Finish(Transfer(r.w, r.s), r.s, r.ld, 0, now) :
              r \in {Begin(w2, iv, TRUE)}}) :
         w2 \in {NewCycle(w1, iv) :
                 w1 \in {BreakStale([w EXCEPT !.snap = [s \in SnapIds |-> Unborn],
                                              !.cyc = [i \in Intervals |-> <<>>],
                                              !.exc = "none"], w.lk)}}})

RecoverAct ==
    \E now \in Times :
        /\ eng.pc \in {"crashed", "recovered"}
        /\ eng.ok = 0 /\ eng.runs < MaxRecoveries
        /\ Later(World, now)
        /\ Cardinality({n \in Names : dir[n] # "absent"}) < MaxSnapshots
        /\ \E w \in {Recover(World, TheCycle, now)} :
              /\ Commit(w)
              /\ eng' = [eng EXCEPT !.pc = "recovered", !.runs = @ + 1,
                                    !.at = now, !.out = w.exc,
                                    !.ok = IF Ok(w) THEN @ + 1 ELSE @,
                                    !.same = /\ w.dir = dir /\ w.sf = sf
                                             /\ w.lk = {} /\ w.mk = {}]
        /\ UNCHANGED <<last, pc, res>>

NextCrash == CrashStepAct \/ CrashAct \/ RecoverAct

SpecCrash == InitCrash /\ [][NextCrash]_vars

(* A later run that raises leaves the directories and the status files as  *)
(* it found them, and no lock: the run after it starts from the same tree. *)
FailedRecoveryLeavesTree == (eng.pc = "recovered" /\ eng.ok = 0) => eng.same

(* C33: wherever create_new_snapshot was killed, the later runs that break *)
(* the stale lock, build the Cycle again and call create_new_snapshot with *)
(* force get a complete timestamped snapshot: some run returns, and the    *)
(* directory it leaves is named by its timestamp and reads as complete.    *)
C33_CrashRecovery ==
    /\ (eng.pc = "recovered" /\ eng.runs = MaxRecoveries) => eng.ok > 0
    /\ (eng.pc = "recovered" /\ eng.ok > 0) =>
          /\ dir[<<TheCycle, eng.at>>] = "full" /\ sf[<<TheCycle, eng.at>>] = 0
          /\ dir[<<TheCycle, WipStamp>>] = "absent"

----------------------------------------------------------------------------
(* SpecTorn: the Snapshot object of SpecDelete also has its status, its    *)
(* timestamp and its interval assigned, the renames of a setter taken one  *)
(* at a time; the process may be killed between any two filesystem calls,  *)
(* and the tree is then loaded again by the Cycle of each interval.        *)
(* last.arg and last.num hold the name the setter renames from.            *)

TornIdle == eng.at \in {"idle", "done"}

(* snapshot.status = new *)
TornSetStatusAct ==
    \E new \in Status :
        /\ TornIdle
        /\ Commit(SetStatus(World, TheSnap, new))
        /\ UNCHANGED <<last, pc, res, eng>>

(* snapshot.timestamp = v or snapshot.interval = v: the names are computed *)
(* and the attribute is assigned                                           *)
RenameCallAct ==
    \E ts \in SnapTimes \cup {snap[TheSnap].timestamp}, iv \in SnapIntervals :
        /\ TornIdle
        /\ snap[TheSnap].status # "unborn"
        /\ ts = snap[TheSnap].timestamp \/ iv = snap[TheSnap].interval
        /\ <<iv, ts>> # <<snap[TheSnap].interval, snap[TheSnap].timestamp>>
        /\ snap' = [snap EXCEPT ![TheSnap].timestamp = ts, ![TheSnap].interval = iv]
        /\ last' = [NoLast EXCEPT !.op = "rename",
                                  !.arg = NameOf(World, TheSnap)[1],
                                  !.num = NameOf(World, TheSnap)[2]]
        /\ eng' = [eng EXCEPT !.at = "ren_lock"]
        /\ exc' = "none"
        /\ UNCHANGED <<dir, sf, lk, mk, cyc, overflow, dry, pc, res>>

RenameOld == <<last.arg, last.num>>

RenameGoes(w, to) ==
    /\ Commit(w)
    /\ eng' = [eng EXCEPT !.at = IF Ok(w) THEN to ELSE "done"]
    /\ UNCHANGED <<last, pc, res>>

(* if os.access(oldlock, os.F_OK): self._rename(oldlock, newlock) *)
RenameLockAct ==
    /\ eng.at = "ren_lock"
    /\ RenameGoes(IF RenameOld \in lk
                  THEN FsRenameLock(World, RenameOld, NameOf(World, TheSnap))
                  ELSE World, "ren_dir")

(* if os.access(oldpath, os.F_OK): self._rename(oldpath, newpath) *)
RenameDirAct ==
    /\ eng.at = "ren_dir"
    /\ RenameGoes(IF dir[RenameOld] # "absent"
                  THEN FsRenameDir(World, RenameOld, NameOf(World, TheSnap))
                  ELSE World, "ren_status")

(* if os.access(oldstatus, os.F_OK): self._rename(oldstatus, newstatus) *)
RenameStatusAct ==
    /\ eng.at = "ren_status"
    /\ RenameGoes(IF sf[RenameOld] # 0
                  THEN FsRenameFile(World, RenameOld, NameOf(World, TheSnap))
                  ELSE World, "done")

(* The process is killed: the object is lost, its last status remembered *)
TornCrashAct ==
    /\ eng.at \notin {"crashed", "reloaded"}
    /\ snap[TheSnap].status # "unborn"
    /\ last' = [last EXCEPT !.op = "crash", !.preStatus = snap[TheSnap].status]
    /\ eng' = [eng EXCEPT !.at = "crashed", !.pre = eng.at]
    /\ snap' = [s \in SnapIds |-> Unborn]
    /\ UNCHANGED <<dir, sf, lk, mk, cyc, overflow, dry, exc, pc, res>>

(* Cycle(dir, "hourly") and Cycle(dir, "daily") are built over the tree *)
TornReloadAct ==
    /\ eng.at = "crashed"
    /\ Commit(NewCycle(NewCycle(World, "hourly"), "daily"))
    /\ eng' = [eng EXCEPT !.at = "reloaded"]
    /\ UNCHANGED <<last, pc, res>>

NextTorn ==
    \/ NextDelete
    \/ TornSetStatusAct \/ RenameCallAct
    \/ RenameLockAct \/ RenameDirAct \/ RenameStatusAct
    \/ TornCrashAct \/ TornReloadAct

SpecTorn == InitDelete /\ [][NextTorn]_vars

(* C34: whatever call of a status assignment, of delete() or of a rename   *)
(* the process was killed after, loading the tree again never reads as     *)
(* complete the directory of a snapshot whose last status in memory was    *)
(* syncing, flagged or deleting.                                           *)
C34_DirtyNeverReadComplete ==
    (eng.at = "reloaded" /\ last.preStatus \in Dirty) =>
        \A s \in SnapIds : snap[s].status # "complete"

----------------------------------------------------------------------------
(* SpecLoad: a process that holds the lock of the wip snapshot finishes    *)
(* its sync (status = complete, timestamp = now, release) while another    *)
(* process constructs a Snapshot, or a Cycle, over the same directory; one *)
(* system call at a time.  The finisher's object is Syncer, the object the *)
(* loader constructs is Loaded.                                            *)

MaxLoads == 2
Syncer == 1
Loaded == 2
WipDir == <<TheCycle, WipStamp>>

InitLoad ==
    \E d \in {"empty", "full"}, st \in {"syncing", "flagged"} :
        /\ dir = [n \in Names |-> IF n = WipDir THEN d ELSE "absent"]
        /\ sf = [n \in Names |-> IF n = WipDir THEN Value(st) ELSE 0]
        /\ lk = {WipDir} /\ mk = {<<WipDir, Syncer>>}
        /\ snap = [s \in SnapIds |-> IF s = Syncer
                      THEN [interval |-> TheCycle, timestamp |-> None, status |-> st]
                      ELSE Unborn]
        /\ cyc = [i \in Intervals |-> <<>>]
        /\ overflow = [i \in Intervals |-> [to |-> "none", keep |-> 0]]
        /\ dry = FALSE /\ exc = "none" /\ last = NoLast
        /\ pc = [o \in Owners |-> IF o = Syncer THEN "set_complete" ELSE "idle"]
        /\ res = [o \in Owners |-> NoResult]
        /\ eng = [loads |-> 0, inferred |-> "none", wrote |-> FALSE, old |-> WipDir]

LoadFrame == UNCHANGED <<cyc, overflow, dry, exc, last, res>>

(* A step of the finisher that leaves world w *)
SyncerGoes(w, to) ==
    /\ dir' = w.dir /\ sf' = w.sf /\ lk' = w.lk /\ mk' = w.mk /\ snap' = w.snap
    /\ pc' = [pc EXCEPT ![Syncer] = IF Ok(w) THEN to ELSE "raised"]
    /\ LoadFrame

(* snapshot.status = Status.complete *)
SyncSetCompleteAct ==
    /\ pc[Syncer] = "set_complete"
    /\ SyncerGoes(SetStatus(World, Syncer, "complete"), "set_timestamp")
    /\ UNCHANGED eng

(* snapshot.timestamp = now: the names are computed, the attribute assigned *)
SyncSetTimestampAct ==
    \E now \in SnapTimes :
        /\ pc[Syncer] = "set_timestamp"
        /\ SyncerGoes([World EXCEPT !.snap[Syncer].timestamp = now], "ren_lock")
        /\ eng' = [eng EXCEPT !.old = NameOf(World, Syncer)]

SyncRenameLockAct ==
    /\ pc[Syncer] = "ren_lock"
    /\ SyncerGoes(IF eng.old \in lk
                  THEN FsRenameLock(World, eng.old, NameOf(World, Syncer))
                  ELSE World, "ren_dir")
    /\ UNCHANGED eng

SyncRenameDirAct ==
    /\ pc[Syncer] = "ren_dir"
    /\ SyncerGoes(IF dir[eng.old] # "absent"
                  THEN FsRenameDir(World, eng.old, NameOf(World, Syncer))
                  ELSE World, "ren_status")
    /\ UNCHANGED eng

SyncRenameStatusAct ==
    /\ pc[Syncer] = "ren_status"
    /\ SyncerGoes(IF sf[eng.old] # 0
                  THEN FsRenameFile(World, eng.old, NameOf(World, Syncer))
                  ELSE World, "release")
    /\ UNCHANGED eng

(* __exit__: self.release() *)
SyncReleaseAct ==
    /\ pc[Syncer] = "release"
    /\ SyncerGoes(SnapRelease(World, Syncer), "returned")
    /\ UNCHANGED eng

(* A step of the loader: its position and what it has read so far *)
LoaderGoes(to, st) ==
    /\ pc' = [pc EXCEPT ![Loaded] = to]
    /\ eng' = [eng EXCEPT !.inferred = st]

(* Snapshot(dir, "hourly"), called directly or by _build_snapshots_list    *)
(* for a directory that glob() returned                                    *)
LoadCallAct ==
    \E by \in {"Snapshot", "Cycle"} :
        /\ pc[Loaded] = "idle" /\ eng.loads < MaxLoads
        /\ by = "Cycle" => dir[WipDir] # "absent"
        /\ snap' = [snap EXCEPT ![Loaded] =
                       [interval |-> TheCycle, timestamp |-> None, status |-> "none"]]
        /\ pc' = [pc EXCEPT ![Loaded] = "access"]
        /\ eng' = [eng EXCEPT !.loads = @ + 1, !.inferred = "none"]
        /\ UNCHANGED <<dir, sf, lk, mk>> /\ LoadFrame

(* infer_status: if not os.access(self.path, os.F_OK) *)
LoadAccessAct ==
    /\ pc[Loaded] = "access"
    /\ IF dir[WipDir] = "absent" THEN LoaderGoes("assign", "void")
       ELSE LoaderGoes("open", "none")
    /\ UNCHANGED <<dir, sf, lk, mk, snap>> /\ LoadFrame

(* infer_status: with open(self.statusfile) as f: Status(int(f.read())) *)
LoadOpenAct ==
    /\ pc[Loaded] = "open"
    /\ IF sf[WipDir] # 0 THEN LoaderGoes("assign", FromValue(sf[WipDir]))
       ELSE LoaderGoes("listdir", "none")
    /\ UNCHANGED <<dir, sf, lk, mk, snap>> /\ LoadFrame

(* infer_status: except FileNotFoundError: if os.listdir(self.path) *)
LoadListdirAct ==
    /\ pc[Loaded] = "listdir"
    /\ IF dir[WipDir] = "absent" THEN LoaderGoes("idle", "FileNotFoundError")
       ELSE LoaderGoes("assign", IF dir[WipDir] = "full" THEN "complete" ELSE "blank")
    /\ UNCHANGED <<dir, sf, lk, mk, snap>> /\ LoadFrame

(* infer_status: self.status = status, through the setter *)
LoadAssignAct ==
    /\ pc[Loaded] = "assign"
    /\ \E w \in {SetStatus(World, Loaded, eng.inferred)} :
          /\ dir' = w.dir /\ sf' = w.sf /\ lk' = w.lk /\ mk' = w.mk /\ snap' = w.snap
          /\ eng' = [eng EXCEPT !.wrote = @ \/ w.sf # sf]
    /\ pc' = [pc EXCEPT ![Loaded] = "idle"]
    /\ LoadFrame

NextLoad ==
    \/ SyncSetCompleteAct \/ SyncSetTimestampAct \/ SyncRenameLockAct
    \/ SyncRenameDirAct \/ SyncRenameStatusAct \/ SyncReleaseAct
    \/ LoadCallAct \/ LoadAccessAct \/ LoadOpenAct \/ LoadListdirAct
    \/ LoadAssignAct

SpecLoad == InitLoad /\ [][NextLoad]_vars

(* The completed snapshot carries a status file *)
CompletedIsDirty ==
    /\ pc[Syncer] = "returned"
    /\ sf[NameOf(World, Syncer)] # 0

(* C35: constructing a Snapshot or a Cycle over the tree creates no file,  *)
(* removes none and changes the content of none (eng.wrote records such a  *)
(* change), and however the construction interleaves with the              *)
(* process that finishes the sync, the completed snapshot has no status    *)
(* file.                                                                   *)
C35_LoadReadOnly == ~eng.wrote /\ ~CompletedIsDirty


(* C36: feed() never inserts into the destination cycle a candidate whose  *)
(* status is not complete, and when it returns every such candidate is     *)
(* deleted.                                                                *)
C36_OnlyCompletePromoted ==
    [][(last.op = "init" /\ last'.op = "feed") =>
          \A i \in (last'.num + 1)..Len(cyc["hourly"]) :
             LET s == cyc["hourly"][i]
             IN  snap[s].status # "complete" =>
                    /\ \A j \in 1..Len(cyc'[last'.arg]) : cyc'[last'.arg][j] # s
                    /\ exc' = "none" => snap'[s].status = "deleted"
    ]_vars


----------------------------------------------------------------------------
(* Claims on the locks of other processes, checked under Spec *)

(* The markers of the other process, which each of its steps changes *)
ForeignMarkers(markers) == {m \in markers : m[2] = Foreign}

(* A step that is a call of purge, not a step of the other process *)
PurgeCalled ==
    /\ last'.op = "purge"
    /\ ForeignMarkers(mk') # ForeignMarkers(mk) => ~(OtherLocksAct \/ OtherUnlocksAct)

(* The snapshot s is in the list of the purged cycle, past the cutoff *)
Surplus(s) ==
    \E i \in 1..Len(cyc[last'.arg]) :
        /\ cyc[last'.arg][i] = s
        /\ i > CutoffIndex(World, cyc[last'.arg], last'.num).idx

----------------------------------------------------------------------------
(* Claims on a transfer that failed, checked under SpecLink *)

(* Cycle(dir, "hourly") built by a later process over the tree as it is *)
Rebuilt ==
    NewCycle([World EXCEPT !.snap = [s \in SnapIds |-> Unborn],
                           !.cyc = [i \in Intervals |-> <<>>]], TheCycle)

(* The last create_new_snapshot ended after wait() returned a code > 0 *)
C38_Failed ==
    /\ eng.pc = "done" /\ eng.launched
    /\ eng.rc # None /\ eng.rc > 0

(* What the failed call leaves, whatever the status: the call raised, the  *)
(* directory is the wip placeholder, the object has no timestamp           *)
C38_LeftAsWip ==
    /\ exc # "none" /\ eng.out # "returned"
    /\ snap[eng.s].timestamp = None /\ snap[eng.s].interval = TheCycle
    /\ dir[<<TheCycle, WipStamp>>] # "absent"
    /\ sf[<<TheCycle, WipStamp>>] = Value(snap[eng.s].status)

(* The next create_new_snapshot, on the rebuilt Cycle, takes up the wip    *)
(* snapshot and does not link to it                                        *)
C38_ResumedFrom(w, force) ==
    /\ Len(w.cyc[TheCycle]) > 0
    /\ NameOf(w, w.cyc[TheCycle][1]) = <<TheCycle, WipStamp>>
    /\ \E r \in {Begin(w, TheCycle, force)} :
          /\ r.branch = "resumed" /\ r.s = w.cyc[TheCycle][1]
          /\ r.ld # r.s

C38_Resumed(force) == \E w \in {Rebuilt} : C38_ResumedFrom(w, force)

----------------------------------------------------------------------------
(* Claims on the order of the lists, checked under Spec *)

(* C39: the list of every cycle, the purged one and its overflow cycles,   *)
(* is ordered newest first by timestamp, a wip snapshot (no timestamp)     *)
(* only at index 0, after construction and after any sequence of purge     *)
(* calls and of the feed calls they make.                                  *)
C39_NewestFirstEverywhere ==
    \A iv \in Intervals : \A i, j \in 1..Len(cyc[iv]) :
        i < j => /\ snap[cyc[iv][j]].timestamp # None
                 /\ snap[cyc[iv][i]].timestamp # None =>
                       snap[cyc[iv][i]].timestamp > snap[cyc[iv][j]].timestamp

(* purge of the hourly cycle has fed two snapshots to the daily cycle and  *)
(* returned                                                                *)
C39_Witness ==
    /\ last.op = "purge" /\ last.arg = "hourly" /\ exc = "none"
    /\ Len(cyc["daily"]) >= 2
    /\ \A i \in 1..Len(cyc["daily"]) : snap[cyc["daily"][i]].interval = "daily"


----------------------------------------------------------------------------
(* SpecPoll: the polling loop of create_new_snapshot and the engine it     *)
(* polls.  The transfer tool writes its lines into a pipe of MaxPipe       *)
(* lines and exits once all of them have been consumed; the reader adds    *)
(* the size of each line it consumes to its counter and, with a non-zero   *)
(* error threshold, sets the kill switch and returns when the counter      *)
(* reaches it.  eng.tick tells one timed-out iteration from the next.      *)

MaxPipe == 1

InitPoll ==
    \E force \in BOOLEAN, th \in 0..MaxThreshold, lines \in 0..MaxLines :
        /\ EmptyFs
        /\ snap = [s \in SnapIds |-> Unborn]
        /\ cyc = [i \in Intervals |-> <<>>]
        /\ overflow = [i \in Intervals |-> [to |-> "none", keep |-> 0]]
        /\ dry = FALSE /\ exc = "none" /\ last = NoLast
        /\ pc = [o \in Owners |-> "idle"]
        /\ res = [o \in Owners |-> NoResult]
        /\ eng = [pc |-> "polling", force |-> force, threshold |-> th,
                  pending |-> lines, pipe |-> 0, count |-> 0,
                  reader |-> "running", flag |-> FALSE, proc |-> "running",
                  tick |-> 0, out |-> "none"]

PollFrame == UNCHANGED <<dir, sf, lk, mk, snap, cyc, overflow, dry, exc, last, pc, res>>

(* The tool writes a line; it blocks while the pipe is full *)
ToolWritesAct ==
    /\ eng.proc = "running" /\ eng.pending > 0 /\ eng.pipe < MaxPipe
    /\ eng' = [eng EXCEPT !.pending = @ - 1, !.pipe = @ + 1]
    /\ PollFrame

(* The tool exits once all of its output has been consumed *)
ToolExitsAct ==
    /\ eng.proc = "running" /\ eng.pending = 0 /\ eng.pipe = 0
    /\ eng' = [eng EXCEPT !.proc = "exited"]
    /\ PollFrame

(* The reader consumes a line and adds its size to the counter; at the     *)
(* error threshold it sets the flag and returns                            *)
ThresholdReached(count, threshold) == threshold > 0 /\ count >= threshold

ReaderReadsAct ==
    \E size \in 1..MaxSize :
        /\ eng.reader = "running" /\ eng.pipe > 0
        /\ eng' = [eng EXCEPT
                      !.pipe = @ - 1,
                      !.count = IF @ + size > MaxThreshold THEN MaxThreshold
                                ELSE @ + size,
                      !.flag = @ \/ ThresholdReached(eng.count + size, eng.threshold),
                      !.reader = IF ThresholdReached(eng.count + size, eng.threshold)
                                 THEN "stopped" ELSE "running"]
        /\ PollFrame

(* The reader meets the end of the stream *)
ReaderEndsAct ==
    /\ eng.reader = "running" /\ eng.pipe = 0 /\ eng.proc # "running"
    /\ eng' = [eng EXCEPT !.reader = "ended"]
    /\ PollFrame

(* engine.wait(0.1) returns the exit code: the subprocess has exited and   *)
(* no reader thread is alive; it raises TimeoutExpired otherwise           *)
WaitReturns == eng.proc # "running" /\ eng.reader # "running"

(* An iteration of the loop whose wait(0.1) timed out: continue *)
LoopTimeoutAct ==
    /\ eng.pc = "polling"
    /\ ~WaitReturns /\ ~KillSwitchFires(eng.flag, eng.force)
    /\ eng' = [eng EXCEPT !.tick = 1 - @]
    /\ PollFrame

(* An iteration whose wait(0.1) returned: break *)
LoopReturnAct ==
    /\ eng.pc = "polling"
    /\ WaitReturns /\ ~KillSwitchFires(eng.flag, eng.force)
    /\ eng' = [eng EXCEPT !.pc = "done", !.out = "returned"]
    /\ PollFrame

(* An iteration at whose end the kill switch fires: process.kill(),        *)
(* raise FlaggedSnapshotError                                              *)
LoopKillAct ==
    /\ eng.pc = "polling"
    /\ KillSwitchFires(eng.flag, eng.force)
    /\ eng' = [eng EXCEPT !.pc = "done", !.out = "FlaggedSnapshotError",
                          !.proc = IF @ = "running" THEN "killed" ELSE @]
    /\ PollFrame

NextPoll ==
    \/ ToolWritesAct \/ ToolExitsAct \/ ReaderReadsAct \/ ReaderEndsAct
    \/ LoopTimeoutAct \/ LoopReturnAct \/ LoopKillAct

SpecPoll == InitPoll /\ [][NextPoll]_vars

(* The tool, the reader thread and the calling thread all keep running:    *)
(* each step that stays possible is eventually taken.                      *)
SpecPollFair ==
    /\ SpecPoll
    /\ WF_vars(ToolWritesAct) /\ WF_vars(ToolExitsAct)
    /\ WF_vars(ReaderReadsAct) /\ WF_vars(ReaderEndsAct)
    /\ WF_vars(LoopTimeoutAct) /\ WF_vars(LoopReturnAct) /\ WF_vars(LoopKillAct)

====
